---------------------------- MODULE Spec2Model ----------------------------
(***************************************************************************)
(* A model of ABXpy/task.py: the Task object (block index, statistics,     *)
(* per-block triplet generation, generate_triplets / generate_pairs) and   *)
(* the module-level helper sort_and_threshold.                             *)
(*                                                                         *)
(* Conventions.  Python arrays and lists are TLA+ sequences; the Python    *)
(* position i is the TLA+ position i+1.  A pandas frame is a function from *)
(* its row labels to rows, a row is a function from column names to        *)
(* values, and groupby(cols).groups is a function from key tuples to sets  *)
(* of row labels.  A groupby key is always kept as a tuple; Python's       *)
(* unwrapping of a one-element key (on_across_from_key) is the case        *)
(* Len(key) = 1, so "type(across) is tuple" reads Len(across) > 1.         *)
(***************************************************************************)
EXTENDS Integers, Sequences, FiniteSets, TLC

\* ------------------------------------------------------------------ bounds
\* rows of the first 'by' group of a database
MaxItems == 3

\* B candidates of the first block of an item file built around one triplet
MaxB == 2

\* largest sample count and largest threshold passed to generate_triplets
MaxSample == 2

MaxThreshold == 1

\* largest number of A, of B and of X candidates of a block enumerated alone
MaxLen == 3

\* sort_and_threshold on its own: number of rows, of signatures, largest cap
MaxRows == 3

MaxSig == 2

MaxCap == 2

\* rows of a chunk handed over by a dataset reader
ChunkRows == 2

\* pair keys on their own: triplets of a group, rows and distinct keys of a
\* sorted stream
MaxTriplets == 2

MaxStream == 4

MaxKeys == 3

\* the signature type on its own: number of B and X regressor columns
MaxRegs == 4

\* the exit paths of generate_pairs: by groups the call iterates
MaxGroups == 3

\* signatures on their own: number of B and X regressor columns of the rows
MaxColumns == 3

\* ---------------------------------------------------------------- helpers
Min(S) == CHOOSE x \in S : \A y \in S : x <= y

Max(S) == CHOOSE x \in S : \A y \in S : x >= y

RECURSIVE SortedSeq(_)
\* the elements of a set of integers in ascending order
SortedSeq(S) == IF S = {} THEN <<>> ELSE <<Min(S)>> \o SortedSeq(S \ {Min(S)})

SeqRange(s) == {s[i] : i \in DOMAIN s}

RECURSIVE SumSeq(_)
SumSeq(s) == IF s = <<>> THEN 0 ELSE Head(s) + SumSeq(Tail(s))

RECURSIVE Concat(_)
\* np.concatenate of a list of arrays
Concat(ss) == IF ss = <<>> THEN <<>> ELSE Head(ss) \o Concat(Tail(ss))

\* the function f held as the table of its values: the same function, its
\* values computed once and not at every application
Table(f) == f @@ <<>>

\* s[idx]: numpy indexing of an array by an array of positions
Take(s, idx) == Table([k \in 1..Len(idx) |-> s[idx[k] + 1]])

\* ------------------------------------------------- the item database (input)
\* database.load returns the item table: one row per item, here with the
\* columns on, ac1, ac2 and by.  Rows are labelled 0..len(db)-1.
Item(b, o, a1, a2) == [by |-> b, on |-> o, ac1 |-> a1, ac2 |-> a2]

ItemCode(it) == 8 * it.by + 4 * it.on + 2 * it.ac1 + it.ac2

\* the constructor's arguments: the by and across column lists, the set of
\* configured filters and the set of configured regressors
On == <<"on">>

\* lines 213-218: the dummy columns used for an empty by / across list
By(c) == IF c.by = <<>> THEN <<"#by">> ELSE c.by

Across(c) == IF c.across = <<>> THEN <<"#across">> ELSE c.across

Columns(c) ==
    {"by", "on", "ac1", "ac2"}
        \cup (IF c.by = <<>> THEN {"#by"} ELSE {})
        \cup (IF c.across = <<>> THEN {"#across"} ELSE {})

\* row r of the table after lines 213-218: '#by' is 0 and '#across' is the
\* row number
Row(d, c, r) ==
    Table([col \in Columns(c) |->
        IF col = "#by" THEN 0
        ELSE IF col = "#across" THEN r
        ELSE d[r + 1][col]])

DbFrame(d, c) == Table([r \in 0..(Len(d) - 1) |-> Row(d, c, r)])

\* ------------------------------------------------------------- pandas frames
\* the key tuple of a row for a list of columns
KeyOf(row, cols) == [i \in 1..Len(cols) |-> row[cols[i]]]

\* frame.groupby(cols).groups
GroupBy(frame, cols) ==
    Table([k \in {KeyOf(frame[l], cols) : l \in DOMAIN frame} |->
        {l \in DOMAIN frame : KeyOf(frame[l], cols) = k}])

\* frame restricted to a set of labels (frame.iloc[...] / boolean indexing)
Restrict(frame, labels) == Table([l \in labels |-> frame[l]])

\* by_frame.reset_index(drop=True): rows relabelled 0..n-1 in their order
ResetIndex(frame) ==
    LET relabel(lab) == Table([l \in 0..(Len(lab) - 1) |-> frame[lab[l + 1]]])
    IN  relabel(SortedSeq(DOMAIN frame))

\* the first row of a frame (by_frame.iloc[0])
FirstRow(frame) == frame[Min(DOMAIN frame)]

\* the order in which a dict of groups is iterated: fixed for one run; the
\* model takes the keys in ascending order
KeyCode(k) == IF Len(k) = 0 THEN 0
              ELSE IF Len(k) = 1 THEN k[1]
              ELSE IF Len(k) = 2 THEN 32 * k[1] + k[2]
              ELSE 1024 * k[1] + 32 * k[2] + k[3]

RECURSIVE SortKeys(_)
SortKeys(S) ==
    IF S = {} THEN <<>>
    ELSE LET m == CHOOSE k \in S : \A j \in S : KeyCode(k) <= KeyCode(j)
         IN  <<m>> \o SortKeys(S \ {m})

\* ------------------------------------------------ filters (FilterManager)
\* The filters are predicates supplied by the caller.  The model fixes one
\* predicate per filter kind; c.filters says which kinds are configured.
\*   by filter:            by == 0
\*   generic filter:       not (ac1 == 1 and ac2 == 1)
\*   on_across_by filter:  on == 0
\*   A / B / X filter:     ac2_A == 0 / ac2_B == 0 / ac2_X == 0
\*   ABX filter:           ac2_A == ac2_B
by_filter(c, by_values) == ("by" \in c.filters) => by_values["by"] = 0

generic_filter(c, by_values, by_frame) ==
    IF "generic" \in c.filters
    THEN Restrict(by_frame, {l \in DOMAIN by_frame :
                                ~(by_frame[l]["ac1"] = 1 /\ by_frame[l]["ac2"] = 1)})
    ELSE by_frame

on_across_by_filter(c, on_across_by_values) ==
    ("on_across_by" \in c.filters) => on_across_by_values["on"] = 0

\* A_filter, B_filter, X_filter: the positions of the candidates that pass
singleton_filter(frame, S) ==
    LET pos == {i \in DOMAIN S : frame[S[i]]["ac2"] = 0}
    IN  [k \in 1..Cardinality(pos) |-> SortedSeq(pos)[k] - 1]

\* ABX_filter: the positions of the triplets that pass
ABX_filter(frame, triplets) ==
    LET pos == {i \in DOMAIN triplets :
                   frame[triplets[i][1]]["ac2"] = frame[triplets[i][2]]["ac2"]}
    IN  [k \in 1..Cardinality(pos) |-> SortedSeq(pos)[k] - 1]

\* a task whose ABX filter is never seen
FiltersABXNever(c) == FALSE

FiltersABX(c) == "ABX" \in c.filters

\* a configuration taken to have no singleton and no ABX filter
NoSingletonOrABX(c) == FALSE

\* self.filters.A or self.filters.B or self.filters.X or self.filters.ABX
AnySingletonOrABX(c) == c.filters \cap {"A", "B", "X", "ABX"} # {}

\* ------------------------------------------- fit_integer_type (type_fitting)
\* the narrowest numpy integer type holding n: its width in bits.  The
\* numbers of the model stay below 2^31, so the widest type met is 32 bits.
fit_integer_type(n, is_signed) ==
    LET m == IF is_signed THEN 2 * n + 1 ELSE n
    IN  IF m < 2 ^ 8 THEN 8
        ELSE IF m < 2 ^ 16 THEN 16
        ELSE 32

\* the value v stored in an unsigned integer of the given width; below 2^31
\* a 32 bit integer holds every value
Wrap(v, width) == IF width >= 32 THEN v ELSE v % (2 ^ width)

\* ------------------------------------------------ Task.__init__, lines 230-298
\* the by groups that pass the by filter
AcceptedBy(d, c) ==
    LET accepted(frame, groups) ==
            {k \in DOMAIN groups : by_filter(c, FirstRow(Restrict(frame, groups[k])))}
    IN  accepted(DbFrame(d, c), GroupBy(DbFrame(d, c), By(c)))

\* lines 249-263: the frame stored for one accepted by group
ByDb(d, c, by_key) ==
    LET filtered(by_frame) == generic_filter(c, FirstRow(by_frame), ResetIndex(by_frame))
    IN  filtered(Restrict(DbFrame(d, c), GroupBy(DbFrame(d, c), By(c))[by_key]))

\* lines 270-278: for every across key of the group, the rows whose across
\* values differ from the key in every coordinate
AntiAcross(c, by_frame) ==
    Table([across_key \in DOMAIN GroupBy(by_frame, Across(c)) |->
        {l \in DOMAIN by_frame :
            \A i \in 1..Len(Across(c)) : by_frame[l][Across(c)[i]] # across_key[i]}])

InitByDbs(d, c) == Table([k \in AcceptedBy(d, c) |-> ByDb(d, c, k)])

InitOnBlocks(c, dbs) == Table([k \in DOMAIN dbs |-> GroupBy(dbs[k], On)])

InitAcrossBlocks(c, dbs) == Table([k \in DOMAIN dbs |-> GroupBy(dbs[k], Across(c))])

InitOnAcrossBlocks(c, dbs) == Table([k \in DOMAIN dbs |-> GroupBy(dbs[k], On \o Across(c))])

InitAntiAcrossBlocks(c, dbs) ==
    IF Len(Across(c)) > 1
    THEN Table([k \in DOMAIN dbs |-> AntiAcross(c, dbs[k])])
    ELSE <<>>

\* lines 291-298; np.max of an empty index raises ValueError
InitTypes(dbs) ==
    Table([k \in DOMAIN dbs |-> fit_integer_type(Max(DOMAIN dbs[k]), FALSE)])

InitRaises(dbs) == \E k \in DOMAIN dbs : DOMAIN dbs[k] = {}

\* ------------------------------------------------ sampling (sampler module)
\* "no sampler installed": the attribute self.sampler does not exist
NoSampler == [N |-> -1, K |-> -1]

RECURSIVE KSubsets(_, _)
\* the subsets of S with k elements
KSubsets(S, k) ==
    IF k = 0 THEN {{}}
    ELSE UNION {{U \cup {x} : x \in S \ U} : U \in KSubsets(S, k - 1)}

\* sampler.sample_without_replacement(n, N, dtype): n distinct positions of
\* 0..N-1, in ascending order, as an array of dtype (a width in bits)
sample_without_replacement(n, N, dtype) ==
    {[k \in 1..n |-> Wrap(SortedSeq(S)[k], dtype)] : S \in KSubsets(0..(N - 1), n)}

\* sampler.IncrementalSampler(N, K): K draws out of N candidates, spread over
\* successive calls sample(n), one per block of n candidates
IncrementalSampler(N, K) == [N |-> N, K |-> K]

\* IncrementalSampler.sample(n): the possible results of one call, each the
\* drawn positions (distinct, ascending, in 0..n-1) and the sampler after it.
\* The number of draws k leaves the remaining K - k reachable in the
\* remaining N - n candidates.
SamplerSample(sm, n) ==
    LET m  == IF n > sm.N THEN sm.N ELSE n
        hi == IF sm.K < m THEN sm.K ELSE m
        l0 == sm.K - (sm.N - m)
        lo == IF l0 < 0 THEN 0 ELSE IF l0 > hi THEN hi ELSE l0
    IN  {[idx |-> SortedSeq(S), sampler |-> [N |-> sm.N - m, K |-> sm.K - Cardinality(S)]] :
            S \in UNION {KSubsets(0..(m - 1), k) : k \in lo..hi}}

\* ------------------------------------------------ sort_and_threshold, 1059-1084
\* lines 1062-1065: the positions where a new run of equal signatures starts
\* in new_index[permut], and the end position
unique_idx(permut, new_index) ==
    LET sorted_index == Take(new_index, permut)
        n == Len(sorted_index)
    IN  IF n = 0 THEN <<0, 1>>
        ELSE SortedSeq({0, n} \cup {p \in 1..(n - 1) : sorted_index[p + 1] # sorted_index[p]})

\* line 1066
RunCounts(uidx) == [j \in 1..(Len(uidx) - 1) |-> uidx[j + 1] - uidx[j]]

\* line 1079: sampled_idx += i, in the array's own integer type
AddOffset(sampled_idx, i, ind_type) ==
    [k \in DOMAIN sampled_idx |-> Wrap(sampled_idx[k] + i, ind_type)]

\* lines 1076-1082: what one run of c rows starting at position i appends
RunPart(permut, i, c, ind_type, threshold) ==
    IF threshold # 0 /\ c > threshold
    THEN {Take(permut, AddOffset(sampled_idx, i, ind_type)) :
             sampled_idx \in sample_without_replacement(threshold, c, ind_type)}
    ELSE {SubSeq(permut, i + 1, i + c)}

RECURSIVE ThresholdLoop(_, _, _, _, _, _)
\* lines 1073-1084: the possible values of np.concatenate(new_permut) for the
\* runs j.. of counts, the loop being at position i.  threshold 0 is
\* threshold=False (no cap).
ThresholdLoop(permut, counts, j, i, ind_type, threshold) ==
    IF j > Len(counts) THEN {<<>>}
    ELSE {h \o t : h \in RunPart(permut, i, counts[j], ind_type, threshold),
                   t \in ThresholdLoop(permut, counts, j + 1, i + counts[j],
                                       ind_type, threshold)}

\* the possible results (new permutation, run boundaries) of one call
sort_and_threshold(permut, new_index, ind_type, threshold) ==
    LET uidx == unique_idx(permut, new_index)
    IN  {[permut |-> np, index |-> uidx] :
            np \in ThresholdLoop(permut, RunCounts(uidx), 1, 0, ind_type, threshold)}

\* np.argsort(new_index): the positions in ascending order of value (ties in
\* position order)
RECURSIVE ArgsortFrom(_, _)
ArgsortFrom(new_index, left) ==
    IF left = {} THEN <<>>
    ELSE LET m == CHOOSE p \in left : \A q \in left :
                      new_index[p] < new_index[q] \/ (new_index[p] = new_index[q] /\ p <= q)
         IN  <<m - 1>> \o ArgsortFrom(new_index, left \ {m})

argsort(new_index) == ArgsortFrom(new_index, DOMAIN new_index)

\* ------------------------------------ Task.on_across_triplets, lines 406-635
\* A task T is the record of the object's fields: by_dbs, on_blocks,
\* across_blocks, on_across_blocks, antiacross_blocks, types, sampling,
\* sampler, threshold.

\* line 436
CandA(on_across_block) == SortedSeq(on_across_block)

\* B candidates that keep the items of the block itself
CandBWithBlock(T, c, by, on, across, on_across_block) ==
    IF Across(c) = <<"#across">>
    THEN SortedSeq(DOMAIN T.by_dbs[by])
    ELSE SortedSeq(T.across_blocks[by][across])

\* lines 437-449
CandB(T, c, by, on, across, on_across_block) ==
    LET on_set == T.on_blocks[by][<<on>>]
    IN  IF Across(c) = <<"#across">>
        THEN SortedSeq((DOMAIN T.by_dbs[by]) \ on_set)
        ELSE SortedSeq(T.across_blocks[by][across] \ on_across_block)

\* X candidates that ignore the anti-across restriction
CandXAnyAcross(T, c, by, on, across, on_across_block) ==
    SortedSeq(T.on_blocks[by][<<on>>] \ on_across_block)

\* lines 452-456
CandX(T, c, by, on, across, on_across_block) ==
    LET on_set == T.on_blocks[by][<<on>>]
    IN  IF Len(across) > 1
        THEN SortedSeq(T.antiacross_blocks[by][across] \cap on_set)
        ELSE SortedSeq(on_set \ on_across_block)

\* lines 461-469: a configured singleton filter keeps the candidates it passes
Filtered(c, kind, frame, S) ==
    IF kind \in c.filters THEN Take(S, singleton_filter(frame, S)) ELSE S

SetA(T, c, by, on_across_block) ==
    Filtered(c, "A", T.by_dbs[by], CandA(on_across_block))

SetB(T, c, by, on, across, on_across_block) ==
    Filtered(c, "B", T.by_dbs[by], CandB(T, c, by, on, across, on_across_block))

SetX(T, c, by, on, across, on_across_block) ==
    Filtered(c, "X", T.by_dbs[by], CandX(T, c, by, on, across, on_across_block))

\* line 488
arange(size) == Table([k \in 1..size |-> k - 1])

\* an X position decoded with the radix of B
DecodeXRadixB(indices, nB, nX) == Table([k \in DOMAIN indices |-> indices[k] % nB])

\* lines 491-493
DecodeX(indices, nB, nX) == Table([k \in DOMAIN indices |-> indices[k] % nX])

DecodeB(indices, nB, nX) == Table([k \in DOMAIN indices |-> (indices[k] \div nX) % nB])

DecodeA(indices, nB, nX) == Table([k \in DOMAIN indices |-> indices[k] \div (nB * nX)])

\* line 494
column_stack(A, B, X, iA, iB, iX) ==
    Table([k \in DOMAIN iA |-> <<A[iA[k] + 1], B[iB[k] + 1], X[iX[k] + 1]>>])

\* set_A_regressors / set_B_regressors / set_X_regressors: the one regressor
\* of the model is ac2, integer coded, over the candidate array
RegOf(frame, S) == Table([k \in DOMAIN S |-> frame[S[k]]["ac2"]])

\* lines 530-540: the radixes and the mixed-radix signature of every row;
\* regs is the list of regressor columns (Breg + Xreg)
n_regs(regs) == [i \in DOMAIN regs |-> Max(SeqRange(regs[i])) + 1]

RECURSIVE ProdSeq(_)
ProdSeq(s) == IF s = <<>> THEN 1 ELSE Head(s) * ProdSeq(Tail(s))

RECURSIVE Signature(_, _, _)
Signature(regs, i, row) ==
    IF i = 1 THEN regs[1][row]
    ELSE regs[i][row] + n_regs(regs)[i] * Signature(regs, i - 1, row)

NewIndex(regs) == [row \in DOMAIN regs[1] |-> Signature(regs, Len(regs), row)]

\* 64 bit integers.  A number is held as its bytes, least significant first,
\* so that a product keeps the width numpy gives it; a radix is below 2^31.
Bytes(n, len) == [i \in 1..len |-> IF i <= 4 THEN (n \div (256 ^ (i - 1))) % 256 ELSE 0]

RECURSIVE Carried(_, _, _)
\* the bytes of the number whose byte columns are cols, truncated to the
\* length of cols
Carried(cols, k, carry) ==
    IF k > Len(cols) THEN <<>>
    ELSE <<(cols[k] + carry) % 256>> \o Carried(cols, k + 1, (cols[k] + carry) \div 256)

\* the product of two numbers of len bytes, modulo 256^len
MulBytes(a, b, len) ==
    Carried([k \in 1..len |-> SumSeq([i \in 1..k |-> a[i] * b[k + 1 - i]])], 1, 0)

RECURSIVE ProdBytes(_, _)
ProdBytes(radixes, len) ==
    IF radixes = <<>> THEN Bytes(1, len)
    ELSE MulBytes(Bytes(Head(radixes), len), ProdBytes(Tail(radixes), len), len)

\* np.prod(n_regs) of lines 534 and 536: the product in the 64 bit integer
\* type of the array
np_prod(radixes) == ProdBytes(radixes, 8)

\* line 534: the assertion on the product.  A signed 64 bit value is below
\* 18446744073709551615 whatever it is; an unsigned one is unless all its bits
\* are set.
AssertPasses(prod, dtype) == dtype = "int64" \/ \E i \in DOMAIN prod : prod[i] # 255

\* the sum of two numbers of len bytes, modulo 256^len
AddBytes(a, b, len) == Carried([k \in 1..len |-> a[k] + b[k]], 1, 0)

RECURSIVE Signature64(_, _, _, _)
\* lines 537-539: the signature of one row over the columns 1..i, in the 64
\* bit integer type of the regressor array
Signature64(regs, radixes, i, row) ==
    IF i = 1 THEN Bytes(regs[1][row], 8)
    ELSE AddBytes(Bytes(regs[i][row], 8),
                  MulBytes(Bytes(radixes[i], 8), Signature64(regs, radixes, i - 1, row), 8), 8)

\* lines 530-539: new_index, the signature of every row
new_index64(regs) ==
    [row \in DOMAIN regs[1] |-> Signature64(regs, n_regs(regs), Len(regs), row)]

\* the result of the block when there is no candidate triplet (lines 558-572)
\* or none is left
BlockResult(triplets, regressors, index, smp, raised) ==
    [triplets |-> triplets, regressors |-> regressors, index |-> index,
     sampler |-> smp, raised |-> raised, calls |-> <<>>, stacked |-> 0]

\* the results of a call after one more call sample(size) of the sampler
\* (lines 486 and 506)
Sampled(results, size) == {[r EXCEPT !.calls = <<size>> \o @] : r \in results}

\* the results of a call that materialised n rows at line 494
Stacked(results, n) == {[r EXCEPT !.stacked = n] : r \in results}

\* lines 509-556 and 587-633: sorting by signature, thresholding and the
\* regressor columns, for the rows left after filtering and sampling.
\* sel lists, for every row left, its position among the enumerated indices.
Finish(T, c, frame, A, B, X, iA, iB, iX, sel, smp, with_regressors) ==
    LET Breg == IF "B" \in c.regressors THEN <<Take(Take(RegOf(frame, B), iB), sel)>> ELSE <<>>
        Xreg == IF "X" \in c.regressors THEN <<Take(Take(RegOf(frame, X), iX), sel)>> ELSE <<>>
        sorts(regs, new_index) ==
            IF regs # <<>> /\ Len(sel) # 0
            THEN sort_and_threshold(argsort(new_index), new_index,
                                    fit_integer_type(ProdSeq(n_regs(regs)), FALSE),
                                    T.threshold)
            ELSE {}
        column(S, iS, thr_sort_permut) == Take(Take(Take(RegOf(frame, S), iS), sel), thr_sort_permut)
        regressors(thr_sort_permut) ==
            [kind \in c.regressors |->
                IF kind = "A" THEN column(A, iA, thr_sort_permut)
                ELSE IF kind = "B" THEN column(B, iB, thr_sort_permut)
                ELSE column(X, iX, thr_sort_permut)]
        results(triplets, sorted) ==
            IF ~with_regressors
            THEN {BlockResult(triplets, <<>>, <<0>>, smp, FALSE)}
            ELSE IF sorted = {}
            THEN {BlockResult(triplets, regressors(<<>>), <<0>>, smp, FALSE)}
            ELSE {BlockResult(Take(triplets, r.permut), regressors(r.permut), r.index, smp,
                              FALSE) : r \in sorted}
        signed(triplets, regs) ==
            results(triplets, IF with_regressors THEN sorts(regs, NewIndex(regs)) ELSE {})
    IN  signed(Take(column_stack(A, B, X, iA, iB, iX), sel), Breg \o Xreg)

\* lines 496-507: the ABX filter, and the sampling that follows it
AfterFilter(T, c, frame, A, B, X, iA, iB, iX, smp, with_regressors) ==
    LET filtered(ABX_filter_ind) ==
            IF ~T.sampling
            THEN Finish(T, c, frame, A, B, X, iA, iB, iX, ABX_filter_ind, smp,
                        with_regressors)
            ELSE IF smp = NoSampler
            THEN {BlockResult(<<>>, <<>>, <<0>>, smp, TRUE)}
            ELSE Sampled(UNION {Finish(T, c, frame, A, B, X, iA, iB, iX,
                                       Take(ABX_filter_ind, d.idx), d.sampler,
                                       with_regressors) :
                                   d \in SamplerSample(smp, Len(ABX_filter_ind))},
                         Len(ABX_filter_ind))
    IN  IF ~FiltersABX(c)
        THEN Finish(T, c, frame, A, B, X, iA, iB, iX, arange(Len(iA)), smp, with_regressors)
        ELSE filtered(ABX_filter(frame, column_stack(A, B, X, iA, iB, iX)))

\* the possible results of one call: the triplets, the regressor columns, the
\* run boundaries, the sampler after the call, and whether the call raised
\* (self.sampler read while no sampler is installed)
on_across_triplets(T, c, by, on, across, on_across_block, with_regressors) ==
    LET enumerate(A, B, X, indices, smp) ==
            Stacked(AfterFilter(T, c, T.by_dbs[by], A, B, X,
                                DecodeA(indices, Len(B), Len(X)),
                                DecodeB(indices, Len(B), Len(X)),
                                DecodeX(indices, Len(B), Len(X)), smp, with_regressors),
                    Len(indices))
        block(A, B, X, size) ==
            IF size = 0
            THEN {BlockResult(<<>>,
                              IF with_regressors THEN [kind \in c.regressors |-> <<>>]
                              ELSE <<>>,
                              <<0>>, T.sampler, FALSE)}
            ELSE IF T.sampling /\ ~FiltersABX(c)
            THEN IF T.sampler = NoSampler
                 THEN {BlockResult(<<>>, <<>>, <<0>>, T.sampler, TRUE)}
                 ELSE Sampled(UNION {enumerate(A, B, X, d.idx, d.sampler) :
                                        d \in SamplerSample(T.sampler, size)}, size)
            ELSE enumerate(A, B, X, arange(size), T.sampler)
        sets(A, B, X) == block(A, B, X, Len(A) * Len(B) * Len(X))
    IN  sets(SetA(T, c, by, on_across_block),
             SetB(T, c, by, on, across, on_across_block),
             SetX(T, c, by, on, across, on_across_block))

\* ------------------------------------ Task.compute_statistics, lines 304-404
RECURSIVE SumFn(_, _)
\* the sum of f over the set D
SumFn(f, D) ==
    IF D = {} THEN 0
    ELSE LET x == CHOOSE y \in D : TRUE IN f[x] + SumFn(f, D \ {x})

Sizes(groups) == Table([k \in DOMAIN groups |-> Cardinality(groups[k])])

\* lines 333-341: the statistics of one by group that are read off the groups
LevelStats(T, by) ==
    [nb_items            |-> Cardinality(DOMAIN T.by_dbs[by]),
     on_levels           |-> Sizes(T.on_blocks[by]),
     nb_on_levels        |-> Cardinality(DOMAIN T.on_blocks[by]),
     across_levels       |-> Sizes(T.across_blocks[by]),
     nb_across_levels    |-> Cardinality(DOMAIN T.across_blocks[by]),
     on_across_levels    |-> Sizes(T.on_across_blocks[by]),
     nb_on_across_levels |-> Cardinality(DOMAIN T.on_across_blocks[by])]

\* on_across_from_key, lines 1050-1056 (the key stays a tuple, see the head
\* of the module)
on_from_key(key) == key[1]

across_from_key(key) == Tail(key)

\* db.ix[block[0]]: the row of the first item of a block
BlockValues(T, by, block) == T.by_dbs[by][Min(block)]

\* lines 370-378
n_A(st, block_key) == st.on_across_levels[block_key]

n_B(c, st, block_key) ==
    IF Across(c) = <<"#across">>
    THEN st.nb_items - st.on_levels[<<on_from_key(block_key)>>]
    ELSE st.across_levels[across_from_key(block_key)] - n_A(st, block_key)

n_X(st, block_key) == st.on_levels[<<on_from_key(block_key)>>] - n_A(st, block_key)

\* the product used only when no singleton or ABX filter is configured
UsesProductUnfiltered(c, approximate, across) ==
    ~AnySingletonOrABX(c) /\ ~(Len(across) > 1)

\* lines 381-384: whether the count of a block is the product n_A*n_B*n_X
UsesProduct(c, approximate, across) ==
    (approximate \/ ~AnySingletonOrABX(c)) /\ ~(Len(across) > 1)

\* lines 369-398: the possible counts of one block, with the sampler after
\* the block and whether on_across_triplets raised
BlockCount(T, c, by, st, block_key, approximate) ==
    LET count(block) ==
            IF ~on_across_by_filter(c, BlockValues(T, by, block))
            THEN {[size |-> 0, passed |-> FALSE, sampler |-> T.sampler, raised |-> FALSE]}
            ELSE IF UsesProduct(c, approximate, across_from_key(block_key))
            THEN {[size |-> n_A(st, block_key) * n_B(c, st, block_key) * n_X(st, block_key),
                   passed |-> TRUE, sampler |-> T.sampler, raised |-> FALSE]}
            ELSE {[size |-> Len(r.triplets), passed |-> TRUE, sampler |-> r.sampler,
                   raised |-> r.raised] :
                     r \in on_across_triplets(T, c, by, on_from_key(block_key),
                                              across_from_key(block_key), block, FALSE)}
    IN  count(T.on_across_blocks[by][block_key])

RECURSIVE BlocksLoop(_, _, _, _, _, _)
\* lines 358-398: the loop over the blocks keys of one by group; st is the
\* group's statistics so far
BlocksLoop(T, c, by, keys, approximate, st) ==
    IF keys = <<>> THEN {[st |-> st, sampler |-> T.sampler, raised |-> FALSE]}
    ELSE UNION {
        IF r.raised
        THEN {[st |-> st, sampler |-> r.sampler, raised |-> TRUE]}
        ELSE BlocksLoop([T EXCEPT !.sampler = r.sampler], c, by, Tail(keys), approximate,
                 [st EXCEPT
                    !.block_sizes = (Head(keys) :> r.size) @@ @,
                    !.nb_triplets = @ + r.size,
                    !.nb_across_pairs = @ + (IF r.passed
                        THEN n_A(st, Head(keys)) * n_B(c, st, Head(keys)) ELSE 0),
                    !.nb_on_pairs = @ + (IF r.passed
                        THEN n_A(st, Head(keys)) * n_X(st, Head(keys)) ELSE 0)])
        : r \in BlockCount(T, c, by, st, Head(keys), approximate)}

\* lines 352-356
StartBy(st) ==
    [k \in DOMAIN st \cup {"block_sizes", "nb_triplets", "nb_across_pairs", "nb_on_pairs"} |->
        IF k = "block_sizes" THEN <<>>
        ELSE IF k \in {"nb_triplets", "nb_across_pairs", "nb_on_pairs"} THEN 0
        ELSE st[k]]

RECURSIVE BysLoop(_, _, _, _, _)
\* lines 351-398: the loop over the by groups; bst is by_stats so far
BysLoop(T, c, bys, approximate, bst) ==
    IF bys = <<>> THEN {[by_stats |-> bst, sampler |-> T.sampler, raised |-> FALSE]}
    ELSE UNION {
        IF r.raised
        THEN {[by_stats |-> [bst EXCEPT ![Head(bys)] = r.st], sampler |-> r.sampler,
               raised |-> TRUE]}
        ELSE BysLoop([T EXCEPT !.sampler = r.sampler], c, Tail(bys), approximate,
                     [bst EXCEPT ![Head(bys)] = r.st])
        : r \in BlocksLoop(T, c, Head(bys), SortKeys(DOMAIN T.on_across_blocks[Head(bys)]),
                           approximate, StartBy(bst[Head(bys)]))}

\* lines 316-321 and 342: the global statistics set before the counting loop
HeadStats(T, c, approximate) ==
    [approximate             |-> AnySingletonOrABX(c),
     approximate_nb_triplets |-> approximate /\ AnySingletonOrABX(c),
     nb_by_levels            |-> Cardinality(DOMAIN T.by_dbs),
     nb_blocks               |-> SumFn([by \in DOMAIN T.by_dbs |->
                                           Cardinality(DOMAIN T.on_across_blocks[by])],
                                       DOMAIN T.by_dbs)]

\* the possible results of compute_statistics(approximate): stats, by_stats,
\* the sampler afterwards.  When on_across_triplets raises, stats is left
\* without nb_triplets.
compute_statistics(T, c, approximate) ==
    LET counted(head) ==
            {[stats |-> IF r.raised THEN head
                        ELSE [k \in DOMAIN head \cup {"nb_triplets"} |->
                                IF k = "nb_triplets"
                                THEN SumFn([by \in DOMAIN T.by_dbs |->
                                               r.by_stats[by]["nb_triplets"]],
                                           DOMAIN T.by_dbs)
                                ELSE head[k]],
              by_stats |-> r.by_stats, sampler |-> r.sampler, raised |-> r.raised] :
                r \in BysLoop(T, c, SortKeys(DOMAIN T.by_dbs), approximate,
                              Table([by \in DOMAIN T.by_dbs |-> LevelStats(T, by)]))}
    IN  counted(HeadStats(T, c, approximate))

\* ------------------------------------ Task._compute_triplets, lines 774-809
RECURSIVE ComputeTripletsLoop(_, _, _, _, _)
\* the loop over the blocks of one by group: the possible rows written to
\* triplets/data, to on_across_block_index and to the group's regressor
\* datasets, with the sampler afterwards.  acc is what was written so far.
ComputeTripletsLoop(T, c, by, keys, acc) ==
    IF keys = <<>> THEN {acc}
    ELSE LET block == T.on_across_blocks[by][Head(keys)]
         IN  IF ~on_across_by_filter(c, BlockValues(T, by, block))
             THEN ComputeTripletsLoop(T, c, by, Tail(keys), acc)
             ELSE UNION {
                 ComputeTripletsLoop([T EXCEPT !.sampler = r.sampler], c, by, Tail(keys),
                     [data        |-> acc.data \o r.triplets,
                      block_index |-> acc.block_index \o r.index,
                      regressors  |-> [kind \in c.regressors |->
                                          acc.regressors[kind] \o r.regressors[kind]],
                      sampler     |-> r.sampler])
                 : r \in on_across_triplets(T, c, by, on_from_key(Head(keys)),
                                            across_from_key(Head(keys)), block, TRUE)}

compute_triplets(T, c, by) ==
    ComputeTripletsLoop(T, c, by, SortKeys(DOMAIN T.on_across_blocks[by]),
        [data |-> <<>>, block_index |-> <<>>,
         regressors |-> [kind \in c.regressors |-> <<>>], sampler |-> T.sampler])

\* ------------------------------------ Task.generate_pairs, lines 813-943
\* lines 837-838: the integer type of the pair keys of a by group
pair_key_type(max_ind) == fit_integer_type((max_ind + 1) * (max_ind + 1) - 1, FALSE)

\* a key built with max_ind itself as the radix
PairKeyRadixMaxInd(component, shared, max_ind) ==
    Wrap(Wrap(component, pair_key_type(max_ind))
            + max_ind * Wrap(shared, pair_key_type(max_ind)), pair_key_type(max_ind))

\* lines 847 and 861-864: the key of the pair (component, shared), computed in
\* pair_key_type
PairKey(component, shared, max_ind) ==
    Wrap(Wrap(component, pair_key_type(max_ind))
            + (max_ind + 1) * Wrap(shared, pair_key_type(max_ind)), pair_key_type(max_ind))

\* keys written with BX at the even and AX at the odd positions
PairKeysBXFirst(triplets, max_ind) ==
    [k \in 1..(2 * Len(triplets)) |->
        IF k % 2 = 1
        THEN PairKey(triplets[(k + 1) \div 2][2], triplets[(k + 1) \div 2][3], max_ind)
        ELSE PairKey(triplets[k \div 2][1], triplets[k \div 2][3], max_ind)]

\* lines 846-869: the AX and BX keys of the triplets of one by group, AX at
\* the even and BX at the odd positions (counted from 0)
PairKeys(triplets, max_ind) ==
    [k \in 1..(2 * Len(triplets)) |->
        IF k % 2 = 1
        THEN PairKey(triplets[(k + 1) \div 2][1], triplets[(k + 1) \div 2][3], max_ind)
        ELSE PairKey(triplets[k \div 2][2], triplets[k \div 2][3], max_ind)]

RECURSIVE SortFrom(_, _)
SortFrom(pairs, left) ==
    IF left = {} THEN <<>>
    ELSE LET m == CHOOSE p \in left : \A q \in left :
                      pairs[p] < pairs[q] \/ (pairs[p] = pairs[q] /\ p <= q)
         IN  <<pairs[m]>> \o SortFrom(pairs, left \ {m})

\* line 871: sort_pairs leaves the keys of the group in ascending order,
\* repeated keys included
sort_pairs(pairs) == SortFrom(pairs, DOMAIN pairs)

RECURSIVE Chunks(_, _)
\* the reader of a dataset hands it over in chunks of at most n rows, none empty
Chunks(s, n) ==
    IF s = <<>> THEN <<>>
    ELSE IF Len(s) <= n THEN <<s>>
    ELSE <<SubSeq(s, 1, n)>> \o Chunks(SubSeq(s, n + 1, Len(s)), n)

\* np.unique(pairs): the distinct values in ascending order
np_unique(pairs) == SortedSeq(SeqRange(pairs))

\* a count that never looks at the key the chunk before ended on
CountNoBoundary(chunks, last, n_pairs) ==
    n_pairs + SumSeq([k \in DOMAIN chunks |-> Len(np_unique(chunks[k]))])

RECURSIVE CountScan(_, _, _)
\* lines 877-887: the number of distinct keys counted over the chunks
CountScan(chunks, last, n_pairs) ==
    IF chunks = <<>> THEN n_pairs
    ELSE LET pairs == Head(chunks)
         IN  CountScan(Tail(chunks), pairs[Len(pairs)],
                       n_pairs + Len(np_unique(pairs)) - (IF pairs[1] = last THEN 1 ELSE 0))

\* a scan that forgets the last key written at every chunk
DedupForgetful(pairs, last) == np_unique(pairs)

\* a scan that drops the first key of every chunk
DedupDropsFirst(pairs, last) == Tail(np_unique(pairs))

\* lines 900-904: the rows one chunk contributes to unique_pairs
DedupChunk(pairs, last) ==
    LET u == np_unique(pairs)
    IN  IF u[1] = last THEN Tail(u) ELSE u

RECURSIVE DedupScan(_, _, _)
\* lines 898-907: the rows written to unique_pairs over the chunks
DedupScan(chunks, last, written) ==
    IF chunks = <<>> THEN written
    ELSE LET kept == DedupChunk(Head(chunks), last)
         IN  DedupScan(Tail(chunks),
                       IF kept # <<>> THEN kept[Len(kept)] ELSE last,
                       written \o kept)

\* a merge that starts every group's range at row 0
MergeStartZero(by_index, n_pairs) == 0

\* line 939: the row of the merged dataset at which the next group starts
MergeAdvance(by_index, n_pairs) == by_index + n_pairs

\* line 921: the rows the merged unique_pairs dataset is created with
n_rows(n_pairs_dict) == SumFn(n_pairs_dict, DOMAIN n_pairs_dict)

RECURSIVE MergePairs(_, _, _, _, _, _, _, _)
\* lines 918-939: the merged unique_pairs dataset and the attributes stored
\* for every by group.  bys lists by_dbs as it is iterated, n_by numbers its
\* groups, triplets_by_index is /triplets/by_index, unique the per-group
\* unique_pairs datasets of the temporary file, by_index the running row.
MergePairs(bys, n_by, triplets_by_index, unique, n_pairs_dict, max_ind_dict, by_index, acc) ==
    IF bys = <<>> THEN acc
    ELSE LET by == Head(bys)
             triplets_attrs == triplets_by_index[n_by + 1]
         IN  IF triplets_attrs[1] = triplets_attrs[2]
             THEN MergePairs(Tail(bys), n_by + 1, triplets_by_index, unique, n_pairs_dict,
                             max_ind_dict, by_index, acc)
             ELSE MergePairs(Tail(bys), n_by + 1, triplets_by_index, unique, n_pairs_dict,
                     max_ind_dict, MergeAdvance(by_index, n_pairs_dict[by]),
                     [unique_pairs |-> acc.unique_pairs \o unique[by],
                      attrs |-> (by :> <<max_ind_dict[by] + 1, by_index,
                                         by_index + n_pairs_dict[by]>>) @@ acc.attrs])

\* ---------------------------------------------- sort_pairs, lines 1086-1115
\* line 1090: the available memory, in Mo
memory == 1000

\* A quantity of data is held as [q, r]: q + r/1000 Ko, with r in 0..999 (the
\* amounts met are below 2^31 Ko, not below 2^31 bytes).
\* lines 1092-1095 and 1098: n rows of i bytes, n given as thousands and
\* units of rows, divided by 1000.: the amount in Ko
Amount(n_thousands, n_units, i) ==
    [q |-> n_thousands * i + (n_units * i) \div 1000, r |-> (n_units * i) % 1000]

\* the memory left in Mo: the unit of line 1090
Unharmonized(m) == m

\* line 1097: the memory in Ko
Harmonized(m) == 1000 * m

\* 0.75 * memory of lines 1102, 1110 and 1115, in Ko
Budget == (3 * Harmonized(memory)) \div 4

\* amount / div <= bound, for an amount [q, r] and whole numbers div, bound
AtMost(amount, div, bound) ==
    amount.q < div * bound \/ (amount.q = div * bound /\ amount.r = 0)

\* lines 1102-1115: the buffer size handed to handler.sort, as the quantity
\* num / div, and the branch taken
buffer_size(amount) ==
    IF AtMost(amount, 1, Budget)
    THEN [branch |-> "one chunk", num |-> amount, div |-> 1]
    ELSE IF AtMost(amount, 30, Budget)
    THEN [branch |-> "30 chunks", num |-> amount, div |-> 30]
    ELSE [branch |-> "budget", num |-> [q |-> Budget, r |-> 0], div |-> 1]

\* ------------------------------------ Task.compute_nb_levels, lines 952-1009
\* a guard that only looks at the ABX filter
UnsupportedFiltersABXOnly(c) == "ABX" \in c.filters

\* lines 953-954: the configurations compute_nb_levels refuses
UnsupportedFilters(c) == AnySingletonOrABX(c)

\* db.iloc[P] selects rows by position, whatever their labels; a position
\* past the last row raises IndexError
ILocRaises(frame, P) == \E p \in P : p >= Cardinality(DOMAIN frame)

ILoc(frame, P) == Restrict(frame, {SortedSeq(DOMAIN frame)[p + 1] : p \in P})

\* lines 971-1006: what one block adds to n, or that db.iloc raised
NbLevelsBlock(T, c, by, block_key) ==
    LET db_by == T.by_dbs[by]
        A == T.on_across_blocks[by][block_key]
        on_set == T.on_blocks[by][<<on_from_key(block_key)>>]
        B == IF Across(c) = <<"#across">>
             THEN (DOMAIN db_by) \ on_set
             ELSE T.across_blocks[by][across_from_key(block_key)] \ A
        X == on_set \ A
        grouping == IF Across(c) = <<"#across">> THEN On ELSE On \o Across(c)
        levels(P) == Cardinality(DOMAIN GroupBy(ILoc(db_by, P), grouping))
    IN  IF ~on_across_by_filter(c, BlockValues(T, by, A)) THEN [raised |-> FALSE, n |-> 0]
        ELSE IF B = {} \/ X = {} THEN [raised |-> FALSE, n |-> 0]
        ELSE IF ILocRaises(db_by, B) \/ ILocRaises(db_by, X) THEN [raised |-> TRUE, n |-> 0]
        ELSE [raised |-> FALSE, n |-> levels(B) * levels(X)]

RECURSIVE NbLevelsBlocks(_, _, _, _, _)
\* lines 967-1006: the loop over the blocks of one by group
NbLevelsBlocks(T, c, by, keys, n) ==
    IF keys = <<>> THEN [raised |-> FALSE, n |-> n]
    ELSE LET r == NbLevelsBlock(T, c, by, Head(keys))
         IN  IF r.raised THEN r
             ELSE NbLevelsBlocks(T, c, by, Tail(keys), n + r.n)

RECURSIVE NbLevelsBys(_, _, _, _)
\* lines 963-1007: the loop over by_dbs; bst is by_stats so far
NbLevelsBys(T, c, bys, bst) ==
    IF bys = <<>> THEN [raised |-> FALSE, by_stats |-> bst]
    ELSE LET r == NbLevelsBlocks(T, c, Head(bys),
                                 SortKeys(DOMAIN bst[Head(bys)]["on_across_levels"]), 0)
         IN  IF r.raised THEN [raised |-> TRUE, by_stats |-> bst]
             ELSE NbLevelsBys(T, c, Tail(bys),
                              [bst EXCEPT ![Head(bys)] = ("nb_levels" :> r.n) @@ @])

\* the result of compute_nb_levels(): the exception raised ("none" when it
\* returns), and stats and by_stats afterwards.  Line 1008 reads nb_levels of
\* every entry of by_stats.
compute_nb_levels(T, c, st, bst) ==
    LET summed(r) ==
            IF r.raised THEN [raised |-> "IndexError", stats |-> st, by_stats |-> r.by_stats]
            ELSE IF \E by \in DOMAIN r.by_stats : "nb_levels" \notin DOMAIN r.by_stats[by]
            THEN [raised |-> "KeyError", stats |-> st, by_stats |-> r.by_stats]
            ELSE [raised |-> "none",
                  stats |-> ("nb_levels" :> SumFn([by \in DOMAIN r.by_stats |->
                                                      r.by_stats[by]["nb_levels"]],
                                                  DOMAIN r.by_stats)) @@ st,
                  by_stats |-> r.by_stats]
    IN  IF UnsupportedFilters(c)
        THEN [raised |-> "ValueError", stats |-> st, by_stats |-> bst]
        ELSE summed(NbLevelsBys(T, c, SortKeys(DOMAIN T.by_dbs), bst))

\* ---------------------------- Task.print_stats_to_stream, lines 1018-1044
\* the statistics the summarized mode writes for every by group, in order;
\* nb_levels only when the group has it (line 1035)
SummaryKeys(st) ==
    <<"nb_triplets">> \o (IF "nb_levels" \in DOMAIN st THEN <<"nb_levels">> ELSE <<>>)
        \o <<"nb_across_pairs", "nb_on_pairs", "nb_on_levels", "nb_across_levels",
             "nb_on_across_levels">>

\* lines 1033-1044: the lines of one by group; a statistic the group does not
\* have raises KeyError after the lines before it
SummaryLines(by, st) ==
    LET keys == SummaryKeys(st)
        missing == {k \in DOMAIN keys : keys[k] \notin DOMAIN st}
        n == IF missing = {} THEN Len(keys) ELSE Min(missing) - 1
    IN  [raised |-> missing # {},
         lines |-> <<<<"by level", by>>>> \o [k \in 1..n |-> <<keys[k], st[keys[k]]>>]]

RECURSIVE WriteBys(_, _, _, _)
\* lines 1024-1026 and 1032-1044: the loop over by_stats
WriteBys(bys, bst, summarized, lines) ==
    IF bys = <<>> THEN [raised |-> "none", lines |-> lines]
    ELSE IF ~summarized
    THEN WriteBys(Tail(bys), bst, summarized,
                  lines \o <<<<"by level", Head(bys)>>, <<"pprint", bst[Head(bys)]>>>>)
    ELSE LET r == SummaryLines(Head(bys), bst[Head(bys)])
         IN  IF r.raised THEN [raised |-> "KeyError", lines |-> lines \o r.lines]
             ELSE WriteBys(Tail(bys), bst, summarized, lines \o r.lines)

\* line 1030: except ValueError
Catches(raised) == raised = "ValueError"

\* the result of print_stats_to_stream(stream, summarized): what is written
\* to the stream, the warnings, stats and by_stats afterwards and the
\* exception that leaves the call
print_stats_to_stream(T, c, st, bst, summarized) ==
    LET head == <<<<"Global stats", st>>>>
        written(r, warned) ==
            LET w == WriteBys(SortKeys(DOMAIN r.by_stats), r.by_stats, summarized, head)
            IN  [raised |-> w.raised, lines |-> w.lines, warnings |-> warned,
                 stats |-> r.stats, by_stats |-> r.by_stats]
        tried(r) ==
            IF r.raised = "none" THEN written(r, <<>>)
            ELSE IF Catches(r.raised) THEN written(r, <<"RuntimeWarning">>)
            ELSE [raised |-> r.raised, lines |-> head, warnings |-> <<>>,
                  stats |-> r.stats, by_stats |-> r.by_stats]
    IN  IF ~summarized
        THEN written([stats |-> st, by_stats |-> bst], <<>>)
        ELSE tried(compute_nb_levels(T, c, st, bst))

\* =========================================================== state machine
VARIABLES
    db,                 \* the item table database.load returned
    cfg,                \* the constructor's arguments (by, across, filters, regressors)
    pc,                 \* "new", "failed", "idle", "triplets", "pairs"
    by_dbs, on_blocks, across_blocks, on_across_blocks, antiacross_blocks, types,
    stats, by_stats,
    sampling, sampler, threshold,
    total_n_triplets, n_triplets,
    by_block_indices, current_index,
    loop,               \* generate_triplets' locals: the by groups still to do,
                        \* empty_by_blocks, bys
    out,                \* the output file of the current generate_triplets call
    events,             \* what the current (or last) generate_triplets call did
    frame               \* the arguments and result of a helper called on its own

vars == <<db, cfg, pc, by_dbs, on_blocks, across_blocks, on_across_blocks,
          antiacross_blocks, types, stats, by_stats, sampling, sampler, threshold,
          total_n_triplets, n_triplets, by_block_indices, current_index, loop, out,
          events, frame>>

blockVars == <<by_dbs, on_blocks, across_blocks, on_across_blocks, antiacross_blocks, types>>

\* the object's fields as one record
Self ==
    [by_dbs |-> by_dbs, on_blocks |-> on_blocks, across_blocks |-> across_blocks,
     on_across_blocks |-> on_across_blocks, antiacross_blocks |-> antiacross_blocks,
     types |-> types, sampling |-> sampling, sampler |-> sampler, threshold |-> threshold]

NoFile == [exists |-> FALSE]

NoLoop ==
    [todo |-> <<>>, empty_by_blocks |-> {}, bys |-> <<>>, written |-> <<>>,
     pairs_todo |-> <<>>, n_by |-> 0, stage |-> "none", tmp_pairs |-> <<>>,
     tmp_unique |-> <<>>, n_pairs_dict |-> <<>>, max_ind_dict |-> <<>>]

NoFrame == [fn |-> "none"]

\* before the constructor has run
Unbuilt(d, c) ==
    /\ db = d
    /\ cfg = c
    /\ pc = "new"
    /\ by_dbs = <<>> /\ on_blocks = <<>> /\ across_blocks = <<>>
    /\ on_across_blocks = <<>> /\ antiacross_blocks = <<>> /\ types = <<>>
    /\ stats = <<>> /\ by_stats = <<>>
    /\ sampling = FALSE /\ sampler = NoSampler /\ threshold = 0
    /\ total_n_triplets = 0 /\ n_triplets = 0
    /\ by_block_indices = <<0>> /\ current_index = 0
    /\ loop = NoLoop
    /\ out = NoFile
    /\ events = {}
    /\ frame = NoFrame

\* Task.__init__, lines 160-302
Task__init__ ==
    /\ pc = "new"
    /\ LET built(T) ==
               \E r \in compute_statistics(T, cfg, FALSE) :
                    /\ pc' = "idle"
                    /\ by_dbs' = T.by_dbs
                    /\ on_blocks' = T.on_blocks
                    /\ across_blocks' = T.across_blocks
                    /\ on_across_blocks' = T.on_across_blocks
                    /\ antiacross_blocks' = T.antiacross_blocks
                    /\ types' = T.types
                    /\ sampling' = FALSE
                    /\ sampler' = r.sampler
                    /\ stats' = r.stats
                    /\ by_stats' = r.by_stats
                    /\ frame' = [fn |-> "compute_statistics", approximate |-> FALSE,
                                 sampler_before |-> sampler]
           blocks(dbs) ==
               IF InitRaises(dbs)
               THEN /\ pc' = "failed"
                    /\ UNCHANGED <<blockVars, stats, by_stats, sampling, sampler, frame>>
               ELSE built([by_dbs |-> dbs,
                           on_blocks |-> InitOnBlocks(cfg, dbs),
                           across_blocks |-> InitAcrossBlocks(cfg, dbs),
                           on_across_blocks |-> InitOnAcrossBlocks(cfg, dbs),
                           antiacross_blocks |-> InitAntiAcrossBlocks(cfg, dbs),
                           types |-> InitTypes(dbs),
                           sampling |-> FALSE, sampler |-> NoSampler, threshold |-> 0])
       IN  blocks(InitByDbs(db, cfg))
    /\ UNCHANGED <<db, cfg, threshold, total_n_triplets, n_triplets, by_block_indices,
                   current_index, loop, out, events>>

\* Task.compute_statistics(approximate), called on a built task; the frame
\* keeps the sampler the call found
ComputeStatistics(approximate) ==
    /\ pc = "idle"
    /\ \E r \in compute_statistics(Self, cfg, approximate) :
        /\ stats' = r.stats
        /\ by_stats' = r.by_stats
        /\ sampler' = r.sampler
    /\ frame' = [fn |-> "compute_statistics", approximate |-> approximate,
                 sampler_before |-> sampler]
    /\ UNCHANGED <<db, cfg, pc, blockVars, sampling, threshold, total_n_triplets,
                   n_triplets, by_block_indices, current_index, loop, out, events>>

\* ------------------------------------ Task.generate_triplets, lines 643-772
\* sample = 0 stands for sample=None and thr = 0 for threshold=None.  The
\* output names a file that does not exist yet (the command line removes an
\* existing one), and a sample count is at most the number of triplets.
NewFile ==
    [exists |-> TRUE, data |-> <<>>, on_across_block_index |-> <<>>, regressors |-> <<>>,
     bys |-> <<>>, by_index |-> <<>>, unique_pairs |-> <<>>, pairs_attrs |-> <<>>]

\* a task that is never taken for empty
NeverEmpty(st) == FALSE

\* line 660: the task has no triplet
NoTriplets(st) == st["nb_triplets"] = 0

\* a sample count that is never refused
NeverRefused(sample, st) == FALSE

\* lines 674-677: a sample count is refused on approximate counts
CannotSample(sample, st) == sample # 0 /\ st["approximate_nb_triplets"]

\* lines 660-725: up to the loop over the by groups
GenerateTriplets(sample, thr) ==
    /\ pc = "idle"
    /\ ("nb_triplets" \in DOMAIN stats /\ sample # 0) => sample <= stats["nb_triplets"]
    /\ IF "nb_triplets" \notin DOMAIN stats
       THEN \* line 660 on statistics left incomplete by a failed compute_statistics
            /\ events' = {"KeyError"}
            /\ UNCHANGED <<pc, sampling, sampler, threshold, total_n_triplets, n_triplets,
                           by_block_indices, current_index, loop, out>>
       ELSE IF NoTriplets(stats)
       THEN \* lines 660-663
            /\ events' = {"warning"}
            /\ UNCHANGED <<pc, sampling, sampler, threshold, total_n_triplets, n_triplets,
                           by_block_indices, current_index, loop, out>>
       ELSE IF CannotSample(sample, stats)
       THEN \* lines 674-679
            /\ total_n_triplets' = stats["nb_triplets"]
            /\ sampling' = TRUE
            /\ events' = {"ValueError"}
            /\ UNCHANGED <<pc, sampler, threshold, n_triplets, by_block_indices,
                           current_index, loop, out>>
       ELSE /\ total_n_triplets' = stats["nb_triplets"]
            /\ sampling' = (sample # 0)
            /\ sampler' = IF sample # 0
                          THEN IncrementalSampler(stats["nb_triplets"], sample)
                          ELSE sampler
            /\ n_triplets' = IF sample # 0 THEN sample ELSE stats["nb_triplets"]
            /\ threshold' = thr
            /\ by_block_indices' = <<0>>
            /\ current_index' = 0
            /\ out' = NewFile
            /\ loop' = [NoLoop EXCEPT !.todo = SortKeys(DOMAIN by_dbs)]
            /\ events' = IF sample # 0 THEN {"sampler", "open"} ELSE {"open"}
            /\ pc' = "triplets"
    /\ UNCHANGED <<db, cfg, blockVars, stats, by_stats, frame>>

\* a by group that is never taken for empty
EmptyByNever(index, indices) == FALSE

\* line 747: the by group wrote no row
EmptyBy(index, indices) == index = indices[Len(indices)]

\* lines 727-751: one turn of the loop over the by groups; loop.written keeps
\* the rows the group wrote
ComputeTripletsBy ==
    /\ pc = "triplets"
    /\ loop.todo # <<>>
    /\ LET by == Head(loop.todo)
       IN  \E r \in compute_triplets(Self, cfg, by) :
            /\ out' = [out EXCEPT !.data = @ \o r.data,
                                  !.on_across_block_index = @ \o r.block_index,
                                  !.regressors = (by :> r.regressors) @@ @]
            /\ sampler' = r.sampler
            /\ current_index' = current_index + Len(r.data)
            /\ IF EmptyBy(current_index + Len(r.data), by_block_indices)
               THEN /\ loop' = [loop EXCEPT !.todo = Tail(@),
                                            !.empty_by_blocks = @ \cup {by},
                                            !.written = (by :> r.data) @@ @]
                    /\ UNCHANGED by_block_indices
               ELSE /\ loop' = [loop EXCEPT !.todo = Tail(@), !.bys = Append(@, by),
                                            !.written = (by :> r.data) @@ @]
                    /\ by_block_indices' = Append(by_block_indices,
                                                  current_index + Len(r.data))
    /\ events' = events \cup {"write"}
    /\ UNCHANGED <<db, cfg, pc, on_blocks, across_blocks, on_across_blocks,
                   antiacross_blocks, types, by_dbs, stats, by_stats, sampling, threshold,
                   total_n_triplets, n_triplets, frame>>

\* generate_pairs iterating no by group at all
PairsOfNoGroup(dbs) == <<>>

\* lines 830 and 925: the by groups generate_pairs iterates, in order
PairsOfGroups(dbs) == SortKeys(DOMAIN dbs)

\* lines 753-766: the by index is saved and the empty by groups are deleted;
\* line 772 then enters generate_pairs (lines 826-829)
FinishTriplets ==
    /\ pc = "triplets"
    /\ loop.todo = <<>>
    /\ LET aux == by_block_indices
           idx == [k \in 1..(Len(aux) - 1) |-> <<aux[k], aux[k + 1]>>]
           dbs == Restrict(by_dbs, (DOMAIN by_dbs) \ loop.empty_by_blocks)
       IN  /\ by_block_indices' = idx
           /\ by_dbs' = dbs
           /\ out' = [out EXCEPT !.bys = loop.bys, !.by_index = idx,
                                 !.data = SubSeq(@, 1, aux[Len(aux)])]
           /\ loop' = [loop EXCEPT !.pairs_todo = PairsOfGroups(dbs), !.n_by = 0,
                                   !.stage = "extract"]
    /\ pc' = "pairs"
    /\ UNCHANGED <<db, cfg, on_blocks, across_blocks, on_across_blocks, antiacross_blocks,
                   types, stats, by_stats, sampling, sampler, threshold, total_n_triplets,
                   n_triplets, current_index, events, frame>>

\* lines 833-869: the pair keys of one by group, written to the temporary file
PairsExtract ==
    /\ pc = "pairs"
    /\ loop.pairs_todo # <<>>
    /\ loop.stage = "extract"
    /\ LET by == Head(loop.pairs_todo)
           triplets_attrs == out.by_index[loop.n_by + 1]
           max_ind == Max(DOMAIN by_dbs[by])
       IN  loop' = [loop EXCEPT
                      !.max_ind_dict = (by :> max_ind) @@ @,
                      !.tmp_pairs = (by :> PairKeys(SubSeq(out.data, triplets_attrs[1] + 1,
                                                          triplets_attrs[2]), max_ind)) @@ @,
                      !.stage = "sort"]
    /\ UNCHANGED <<db, cfg, pc, blockVars, stats, by_stats, sampling, sampler, threshold,
                   total_n_triplets, n_triplets, by_block_indices, current_index, out,
                   events, frame>>

\* line 871: the keys of the group sorted in the temporary file
PairsSort ==
    /\ pc = "pairs"
    /\ loop.pairs_todo # <<>>
    /\ loop.stage = "sort"
    /\ LET by == Head(loop.pairs_todo)
       IN  loop' = [loop EXCEPT !.tmp_pairs[by] = sort_pairs(@), !.stage = "dedup"]
    /\ UNCHANGED <<db, cfg, pc, blockVars, stats, by_stats, sampling, sampler, threshold,
                   total_n_triplets, n_triplets, by_block_indices, current_index, out,
                   events, frame>>

\* lines 874-915: the distinct keys of the group counted and written; the
\* loop of line 830 moves on to the next by group
PairsDedup ==
    /\ pc = "pairs"
    /\ loop.pairs_todo # <<>>
    /\ loop.stage = "dedup"
    /\ LET by == Head(loop.pairs_todo)
           chunks == Chunks(loop.tmp_pairs[by], ChunkRows)
       IN  loop' = [loop EXCEPT
                      !.n_pairs_dict = (by :> CountScan(chunks, -1, 0)) @@ @,
                      !.tmp_unique = (by :> DedupScan(chunks, -1, <<>>)) @@ @,
                      !.pairs_todo = Tail(@), !.n_by = @ + 1, !.stage = "extract"]
    /\ UNCHANGED <<db, cfg, pc, blockVars, stats, by_stats, sampling, sampler, threshold,
                   total_n_triplets, n_triplets, by_block_indices, current_index, out,
                   events, frame>>

\* lines 918-943: the per-group datasets merged, the temporary file removed
GeneratePairs ==
    /\ pc = "pairs"
    /\ loop.pairs_todo = <<>>
    /\ LET r == MergePairs(PairsOfGroups(by_dbs), 0, out.by_index, loop.tmp_unique,
                           loop.n_pairs_dict, loop.max_ind_dict, 0,
                           [unique_pairs |-> <<>>, attrs |-> <<>>])
       IN  out' = [out EXCEPT !.unique_pairs = r.unique_pairs, !.pairs_attrs = r.attrs]
    /\ events' = events \cup {"pairs"}
    /\ loop' = NoLoop
    /\ pc' = "idle"
    /\ UNCHANGED <<db, cfg, blockVars, stats, by_stats, sampling, sampler, threshold,
                   total_n_triplets, n_triplets, by_block_indices, current_index, frame>>

\* Task.on_across_triplets called on its own for one block of a built task,
\* as compute_statistics calls it (lines 385-395): without regressors.  The
\* frame keeps the candidate sets of lines 436-456, the sets left by the
\* singleton filters (lines 461-469), the rows materialised at line 494 and
\* the rows returned.
OnAcrossTriplets(by, key) ==
    /\ pc = "idle"
    /\ by \in DOMAIN by_dbs
    /\ key \in DOMAIN on_across_blocks[by]
    /\ LET on == on_from_key(key)
           across == across_from_key(key)
           called(block, A, B, X, indices) ==
               \E r \in on_across_triplets(Self, cfg, by, on, across, block, FALSE) :
                 frame' = [fn |-> "on_across_triplets", by |-> by, on |-> on,
                           across |-> across,
                           candA |-> CandA(block),
                           candB |-> CandB(Self, cfg, by, on, across, block),
                           candX |-> CandX(Self, cfg, by, on, across, block),
                           A |-> A, B |-> B, X |-> X,
                           enumerated |-> column_stack(A, B, X,
                                             DecodeA(indices, Len(B), Len(X)),
                                             DecodeB(indices, Len(B), Len(X)),
                                             DecodeX(indices, Len(B), Len(X))),
                           triplets |-> r.triplets]
           sets(block, A, B, X) ==
               called(block, A, B, X, arange(Len(A) * Len(B) * Len(X)))
           blocked(block) ==
               sets(block, SetA(Self, cfg, by, block), SetB(Self, cfg, by, on, across, block),
                    SetX(Self, cfg, by, on, across, block))
       IN  blocked(on_across_blocks[by][key])
    /\ UNCHANGED <<db, cfg, pc, blockVars, stats, by_stats, sampling, sampler, threshold,
                   total_n_triplets, n_triplets, by_block_indices, current_index, loop, out,
                   events>>

\* Task.on_across_triplets called for one block as _compute_triplets calls it
\* (lines 789-797): with regressors, under the sampling and the threshold
\* generate_triplets has set.  The frame keeps what the call of
\* OnAcrossTriplets keeps, the regressor columns and run boundaries returned,
\* the sizes the sampler was called with and the number of rows materialised
\* at line 494; the sampler is left as the call leaves it.
OnAcrossTripletsWithRegressors(by, key) ==
    /\ pc = "triplets"
    /\ by \in DOMAIN by_dbs
    /\ key \in DOMAIN on_across_blocks[by]
    /\ LET on == on_from_key(key)
           across == across_from_key(key)
           called(block, A, B, X, indices) ==
               \E r \in on_across_triplets(Self, cfg, by, on, across, block, TRUE) :
                 /\ frame' = [fn |-> "on_across_triplets", by |-> by, on |-> on,
                              across |-> across,
                              candA |-> CandA(block),
                              candB |-> CandB(Self, cfg, by, on, across, block),
                              candX |-> CandX(Self, cfg, by, on, across, block),
                              A |-> A, B |-> B, X |-> X,
                              enumerated |-> column_stack(A, B, X,
                                                DecodeA(indices, Len(B), Len(X)),
                                                DecodeB(indices, Len(B), Len(X)),
                                                DecodeX(indices, Len(B), Len(X))),
                              triplets |-> r.triplets,
                              with_regressors |-> TRUE,
                              regressors |-> r.regressors,
                              index |-> r.index,
                              calls |-> r.calls,
                              stacked |-> r.stacked,
                              raised |-> r.raised]
                 /\ sampler' = r.sampler
           sets(block, A, B, X) ==
               called(block, A, B, X, arange(Len(A) * Len(B) * Len(X)))
           blocked(block) ==
               sets(block, SetA(Self, cfg, by, block), SetB(Self, cfg, by, on, across, block),
                    SetX(Self, cfg, by, on, across, block))
       IN  blocked(on_across_blocks[by][key])
    /\ UNCHANGED <<db, cfg, pc, blockVars, stats, by_stats, sampling, threshold,
                   total_n_triplets, n_triplets, by_block_indices, current_index, loop, out,
                   events>>

\* sort_and_threshold (lines 1059-1084) called on its own on the arguments
\* held in the frame
SortAndThreshold ==
    /\ frame.fn = "sort_and_threshold"
    /\ ~frame.called
    /\ \E r \in sort_and_threshold(frame.permut, frame.new_index, frame.ind_type,
                                   frame.threshold) :
         frame' = [fn |-> "sort_and_threshold", called |-> TRUE,
                   permut |-> frame.permut, new_index |-> frame.new_index,
                   ind_type |-> frame.ind_type, threshold |-> frame.threshold,
                   new_permut |-> r.permut, index |-> r.index]
    /\ UNCHANGED <<db, cfg, pc, blockVars, stats, by_stats, sampling, sampler, threshold,
                   total_n_triplets, n_triplets, by_block_indices, current_index, loop, out,
                   events>>

\* lines 846-869 on their own: the keys of the triplets held in the frame
GeneratePairKeys ==
    /\ frame.fn = "pair_keys"
    /\ ~frame.called
    /\ frame' = [fn |-> "pair_keys", called |-> TRUE, max_ind |-> frame.max_ind,
                 triplets |-> frame.triplets,
                 pairs |-> PairKeys(frame.triplets, frame.max_ind)]
    /\ UNCHANGED <<db, cfg, pc, blockVars, stats, by_stats, sampling, sampler, threshold,
                   total_n_triplets, n_triplets, by_block_indices, current_index, loop, out,
                   events>>

\* lines 874-907 on their own: the counting scan and the dedup scan over the
\* chunks held in the frame
DedupPairs ==
    /\ frame.fn = "dedup"
    /\ ~frame.called
    /\ frame' = [fn |-> "dedup", called |-> TRUE, chunks |-> frame.chunks,
                 n_pairs |-> CountScan(frame.chunks, -1, 0),
                 unique_pairs |-> DedupScan(frame.chunks, -1, <<>>)]
    /\ UNCHANGED <<db, cfg, pc, blockVars, stats, by_stats, sampling, sampler, threshold,
                   total_n_triplets, n_triplets, by_block_indices, current_index, loop, out,
                   events>>

\* lines 530-537 on their own: the product of the radixes held in the frame,
\* the assertion on it, and whether the call goes on with the product
SignatureType ==
    /\ frame.fn = "signature_type"
    /\ ~frame.called
    /\ frame' = [fn |-> "signature_type", called |-> TRUE, n_regs |-> frame.n_regs,
                 dtype |-> frame.dtype,
                 prod |-> np_prod(frame.n_regs),
                 raised |-> ~AssertPasses(np_prod(frame.n_regs), frame.dtype)]
    /\ UNCHANGED <<db, cfg, pc, blockVars, stats, by_stats, sampling, sampler, threshold,
                   total_n_triplets, n_triplets, by_block_indices, current_index, loop, out,
                   events>>

\* Task.compute_nb_levels() called on a built task
ComputeNbLevels ==
    /\ pc = "idle"
    /\ LET r == compute_nb_levels(Self, cfg, stats, by_stats)
       IN  /\ stats' = r.stats
           /\ by_stats' = r.by_stats
           /\ frame' = [fn |-> "compute_nb_levels", raised |-> r.raised]
    /\ UNCHANGED <<db, cfg, pc, blockVars, sampling, sampler, threshold, total_n_triplets,
                   n_triplets, by_block_indices, current_index, loop, out, events>>

\* Task.print_stats(summarized=...) called on a built task (lines 1011-1044)
PrintStats(summarized) ==
    /\ pc = "idle"
    /\ LET r == print_stats_to_stream(Self, cfg, stats, by_stats, summarized)
       IN  /\ stats' = r.stats
           /\ by_stats' = r.by_stats
           /\ frame' = [fn |-> "print_stats", summarized |-> summarized,
                        raised |-> r.raised, lines |-> r.lines, warnings |-> r.warnings]
    /\ UNCHANGED <<db, cfg, pc, blockVars, sampling, sampler, threshold, total_n_triplets,
                   n_triplets, by_block_indices, current_index, loop, out, events>>

\* sort_pairs (lines 1086-1115) called for a dataset of the size held in the
\* frame: the buffer size it sorts with
SortPairsBuffer ==
    /\ frame.fn = "sort_pairs"
    /\ ~frame.called
    /\ LET amount == Amount(frame.n_thousands, frame.n_units, frame.itemsize)
       IN  frame' = [fn |-> "sort_pairs", called |-> TRUE,
                     n_thousands |-> frame.n_thousands, n_units |-> frame.n_units,
                     itemsize |-> frame.itemsize,
                     amount |-> amount, buffer |-> buffer_size(amount)]
    /\ UNCHANGED <<db, cfg, pc, blockVars, stats, by_stats, sampling, sampler, threshold,
                   total_n_triplets, n_triplets, by_block_indices, current_index, loop, out,
                   events>>

\* lines 529-539 on their own: the radixes, the assertion on their product and
\* the signatures of the rows whose regressor columns are held in the frame
SignRows ==
    /\ frame.fn = "new_index"
    /\ ~frame.called
    /\ frame' = [fn |-> "new_index", called |-> TRUE, regs |-> frame.regs,
                 dtype |-> frame.dtype,
                 n_regs |-> n_regs(frame.regs),
                 raised |-> ~AssertPasses(np_prod(n_regs(frame.regs)), frame.dtype),
                 new_index |-> new_index64(frame.regs)]
    /\ UNCHANGED <<db, cfg, pc, blockVars, stats, by_stats, sampling, sampler, threshold,
                   total_n_triplets, n_triplets, by_block_indices, current_index, loop, out,
                   events>>

\* ---------------------- the exit paths of generate_pairs, lines 828-941
\* The frame holds one call: its tmpdir argument ("None", a directory, or a
\* path that is no directory), the number of by groups, the statement the
\* call is at, the by group it is at, what the local name output_tmp is bound
\* to ("unbound" before line 829 has assigned it), the step that raised, and
\* the exception that leaves the call.
\* lines 940-941: the finally clause, os.remove(output_tmp).  Reading a local
\* name that was never assigned raises UnboundLocalError, and an exception
\* raised in a finally clause is the one that leaves the function.
os_remove(output_tmp, error) ==
    IF output_tmp = "unbound"
    THEN [output_tmp |-> "unbound", propagated |-> "UnboundLocalError"]
    ELSE [output_tmp |-> "removed", propagated |-> error]

\* the statement after a step of the loop of lines 830-915 that did not raise
AfterStep(stage, n_by, groups) ==
    IF stage = "extract" THEN [stage |-> "sort", n_by |-> n_by]
    ELSE IF stage = "sort" THEN [stage |-> "dedup", n_by |-> n_by]
    ELSE IF n_by + 1 < groups THEN [stage |-> "extract", n_by |-> n_by + 1]
    ELSE [stage |-> "merge", n_by |-> 0]

\* line 829: tempfile.mkstemp(dir=tmpdir) inside the try block.  It raises
\* when tmpdir is no directory, and may raise on any other tmpdir (no space,
\* no permission); the name output_tmp is bound only when it returns.
Mkstemp ==
    /\ frame.fn = "generate_pairs"
    /\ frame.stage = "mkstemp"
    /\ \E raises \in IF frame.tmpdir = "missing" THEN {TRUE} ELSE BOOLEAN :
         frame' = IF raises
                  THEN [frame EXCEPT !.error = "mkstemp", !.stage = "finally"]
                  ELSE [frame EXCEPT !.output_tmp = "exists", !.stage = "extract"]
    /\ UNCHANGED <<db, cfg, pc, blockVars, stats, by_stats, sampling, sampler, threshold,
                   total_n_triplets, n_triplets, by_block_indices, current_index, loop, out,
                   events>>

\* lines 830-915: one step (pair extraction, sort, dedup) of one by group,
\* which the storage layer may fail
TryPairsStep ==
    /\ frame.fn = "generate_pairs"
    /\ frame.stage \in {"extract", "sort", "dedup"}
    /\ \E raises \in BOOLEAN :
         frame' = IF raises
                  THEN [frame EXCEPT !.error = frame.stage, !.stage = "finally"]
                  ELSE LET next == AfterStep(frame.stage, frame.n_by, frame.groups)
                       IN  [frame EXCEPT !.stage = next.stage, !.n_by = next.n_by]
    /\ UNCHANGED <<db, cfg, pc, blockVars, stats, by_stats, sampling, sampler, threshold,
                   total_n_triplets, n_triplets, by_block_indices, current_index, loop, out,
                   events>>

\* lines 919-939: the merge of one by group; after the last one the try block
\* is left normally
TryMergeStep ==
    /\ frame.fn = "generate_pairs"
    /\ frame.stage = "merge"
    /\ \E raises \in BOOLEAN :
         frame' = IF raises
                  THEN [frame EXCEPT !.error = "merge", !.stage = "finally"]
                  ELSE IF frame.n_by + 1 < frame.groups
                  THEN [frame EXCEPT !.n_by = @ + 1]
                  ELSE [frame EXCEPT !.stage = "finally"]
    /\ UNCHANGED <<db, cfg, pc, blockVars, stats, by_stats, sampling, sampler, threshold,
                   total_n_triplets, n_triplets, by_block_indices, current_index, loop, out,
                   events>>

\* lines 940-943: the finally clause, then the return or the exception
OsRemove ==
    /\ frame.fn = "generate_pairs"
    /\ frame.stage = "finally"
    /\ LET r == os_remove(frame.output_tmp, frame.error)
       IN  frame' = [frame EXCEPT !.output_tmp = r.output_tmp,
                                  !.propagated = r.propagated,
                                  !.stage = IF r.propagated = "none" THEN "returned"
                                            ELSE "raised"]
    /\ UNCHANGED <<db, cfg, pc, blockVars, stats, by_stats, sampling, sampler, threshold,
                   total_n_triplets, n_triplets, by_block_indices, current_index, loop, out,
                   events>>


\* ======================================================== the inputs checked
AllItems == {Item(0, o, a1, a2) : o \in 0..1, a1 \in 0..1, a2 \in 0..1}

RECURSIVE ItemSeqs(_, _)
\* the item files of n rows of the by value 0 whose rows come in ascending
\* ItemCode from lo on
ItemSeqs(n, lo) ==
    IF n = 0 THEN {<<>>}
    ELSE UNION {{<<it>> \o t : t \in ItemSeqs(n - 1, ItemCode(it))}
                : it \in {i \in AllItems : ItemCode(i) >= lo}}

\* the rows of a second by group, if any
Tails == {<<>>, <<Item(1, 0, 0, 0)>>}

Databases == {g \o t : g \in UNION {ItemSeqs(n, 0) : n \in 0..MaxItems}, t \in Tails}

AcrossLists == {<<>>, <<"ac1">>, <<"ac1", "ac2">>}

StatsFilters == {{}, {"by"}, {"generic"}, {"on_across_by"}, {"A"}, {"B"}, {"X"}, {"ABX"},
                 {"A", "ABX"}}

StatsConfigs ==
    [by : {<<"by">>}, across : AcrossLists, filters : StatsFilters, regressors : {{}}]
        \cup [by : {<<>>}, across : AcrossLists, filters : {{}, {"ABX"}},
              regressors : {{}}]

\* the constructor and compute_statistics on every small item file
InitStats == \E d \in Databases, c \in StatsConfigs : Unbuilt(d, c)

NextStats ==
    \/ Task__init__
    \/ \E approximate \in BOOLEAN : ComputeStatistics(approximate)

SpecStats == InitStats /\ [][NextStats]_vars

\* ------------------------------------------------- one block on its own
\* item files with one block of nA x nB x nX triplets for across = ac1
BoxDatabases ==
    {[k \in 1..(nA + nB + nX) |->
        IF k <= nA THEN Item(0, 0, 0, 0)
        ELSE IF k <= nA + nB THEN Item(0, 1, 0, 0)
        ELSE Item(0, 0, 1, 1)] : nA \in 1..MaxLen, nB \in 1..MaxLen, nX \in 1..MaxLen}

BlockConfigs ==
    [by : {<<"by">>}, across : AcrossLists,
     filters : {{}, {"A"}, {"B"}, {"X"}, {"ABX"}, {"A", "B", "X"}}, regressors : {{}}]

InitBlock ==
    \/ \E d \in Databases, c \in BlockConfigs : Unbuilt(d, c)
    \/ \E d \in BoxDatabases :
         Unbuilt(d, [by |-> <<"by">>, across |-> <<"ac1">>, filters |-> {},
                     regressors |-> {}])

NextBlock ==
    \/ Task__init__
    \/ \E by \in DOMAIN by_dbs : \E key \in DOMAIN on_across_blocks[by] :
          OnAcrossTriplets(by, key)

SpecBlock == InitBlock /\ [][NextBlock]_vars

\* ------------------------------------------- sort_and_threshold on its own
\* the permutations of 0..n-1 that sort new_index
SortingPermutations(new_index) ==
    {q \in [1..Len(new_index) -> 0..(Len(new_index) - 1)] :
        /\ \A k, l \in 1..Len(new_index) : k # l => q[k] # q[l]
        /\ \A k \in 1..(Len(new_index) - 1) : new_index[q[k] + 1] <= new_index[q[k + 1] + 1]}

\* a call as line 552 makes it: signatures below MaxSig, a permutation that
\* sorts them, the integer type fitted to the number of signatures, a cap
Call(permut, new_index, cap) ==
    [fn |-> "sort_and_threshold", called |-> FALSE, permut |-> permut,
     new_index |-> new_index, ind_type |-> fit_integer_type(MaxSig, FALSE),
     threshold |-> cap]

\* the signatures of a block of two runs, the first of WideRun rows: the
\* second run starts at the largest offset an 8 bit integer holds
WideRun == 2 ^ 8 - 1

WideIndex == [k \in 1..(WideRun + MaxRows) |-> IF k <= WideRun THEN 0 ELSE 1]

InitSort ==
    \E f \in UNION {{Call(q, new_index, cap) :
                        q \in SortingPermutations(new_index), cap \in 0..MaxCap} :
                    new_index \in UNION {[1..n -> 0..(MaxSig - 1)] : n \in 1..MaxRows}}
             \cup {Call(arange(Len(WideIndex)), WideIndex, cap) : cap \in 0..1} :
        /\ db = <<>>
        /\ cfg = [by |-> <<>>, across |-> <<>>, filters |-> {}, regressors |-> {}]
        /\ pc = "new"
        /\ by_dbs = <<>> /\ on_blocks = <<>> /\ across_blocks = <<>>
        /\ on_across_blocks = <<>> /\ antiacross_blocks = <<>> /\ types = <<>>
        /\ stats = <<>> /\ by_stats = <<>>
        /\ sampling = FALSE /\ sampler = NoSampler /\ threshold = 0
        /\ total_n_triplets = 0 /\ n_triplets = 0
        /\ by_block_indices = <<0>> /\ current_index = 0
        /\ loop = NoLoop
        /\ out = NoFile
        /\ events = {}
        /\ frame = f

NextSort == SortAndThreshold

SpecSort == InitSort /\ [][NextSort]_vars

\* ------------------------------------------------- pair keys on their own
\* no task: only a helper call held in the frame
Detached(f) ==
    /\ db = <<>>
    /\ cfg = [by |-> <<>>, across |-> <<>>, filters |-> {}, regressors |-> {}]
    /\ pc = "new"
    /\ by_dbs = <<>> /\ on_blocks = <<>> /\ across_blocks = <<>>
    /\ on_across_blocks = <<>> /\ antiacross_blocks = <<>> /\ types = <<>>
    /\ stats = <<>> /\ by_stats = <<>>
    /\ sampling = FALSE /\ sampler = NoSampler /\ threshold = 0
    /\ total_n_triplets = 0 /\ n_triplets = 0
    /\ by_block_indices = <<0>> /\ current_index = 0
    /\ loop = NoLoop
    /\ out = NoFile
    /\ events = {}
    /\ frame = f

\* largest row labels of a by group: small ones, and the two around the
\* change of pair_key_type from 8 to 16 bits
MaxInds == {1, 2, 2 ^ 4 - 1, 2 ^ 4}

\* item indices of a group: the smallest and the two largest
Indices(max_ind) == {0, max_ind - 1, max_ind}

TripletRows(max_ind) ==
    UNION {[1..n -> Indices(max_ind) \X Indices(max_ind) \X Indices(max_ind)]
              : n \in 1..MaxTriplets}

RECURSIVE SortedStreams(_, _)
\* the ascending key sequences of n rows with keys from lo on
SortedStreams(n, lo) ==
    IF n = 0 THEN {<<>>}
    ELSE UNION {{<<k>> \o t : t \in SortedStreams(n - 1, k)} : k \in lo..(MaxKeys - 1)}

RECURSIVE Chunkings(_)
\* the ways a reader can hand a stream over in chunks, none empty
Chunkings(s) ==
    IF s = <<>> THEN {<<>>}
    ELSE UNION {{<<SubSeq(s, 1, n)>> \o t : t \in Chunkings(SubSeq(s, n + 1, Len(s)))}
                   : n \in 1..Len(s)}

\* lines 918-939 for a file of one by group, after the two scans of lines
\* 874-907 ran on its keys: the group has a triplet (its key stream is not
\* empty) and max_ind is at least its greatest item
MergeUnique ==
    /\ frame.fn = "dedup"
    /\ frame.called
    /\ frame.chunks # <<>>
    /\ LET by == <<0>>
           keys == Concat(frame.chunks)
           n_pairs_dict == by :> frame.n_pairs
           r == MergePairs(<<by>>, 0, <<<<0, Len(keys)>>>>, by :> frame.unique_pairs,
                           n_pairs_dict, by :> keys[Len(keys)], 0,
                           [unique_pairs |-> <<>>, attrs |-> <<>>])
       IN  frame' = [fn |-> "merge", called |-> TRUE, chunks |-> frame.chunks,
                     written |-> frame.unique_pairs, n_rows |-> n_rows(n_pairs_dict),
                     unique_pairs |-> r.unique_pairs, attrs |-> r.attrs]
    /\ UNCHANGED <<db, cfg, pc, blockVars, stats, by_stats, sampling, sampler, threshold,
                   total_n_triplets, n_triplets, by_block_indices, current_index, loop, out,
                   events>>

InitPairs ==
    \E f \in UNION {{[fn |-> "pair_keys", called |-> FALSE, max_ind |-> max_ind,
                      triplets |-> t] : t \in TripletRows(max_ind)} : max_ind \in MaxInds}
             \cup UNION {{[fn |-> "dedup", called |-> FALSE, chunks |-> ch]
                             : ch \in Chunkings(s)}
                         : s \in UNION {SortedStreams(n, 0) : n \in 0..MaxStream}} :
        Detached(f)

NextPairs ==
    \/ GeneratePairKeys
    \/ DedupPairs
    \/ MergeUnique

SpecPairs == InitPairs /\ [][NextPairs]_vars

\* ------------------------------------------ the signature type on its own
\* radixes (largest regressor value + 1) of a regressor column
Radixes == {2, 2 ^ 8, 2 ^ 16, 2 ^ 30}

\* the 64 bit integer types the regressor arrays can have
RegDtypes == {"int64", "uint64"}

InitSignature ==
    \E f \in UNION {[fn : {"signature_type"}, called : {FALSE},
                     n_regs : [1..n -> Radixes], dtype : RegDtypes] : n \in 1..MaxRegs} :
        Detached(f)

NextSignature == SignatureType

SpecSignature == InitSignature /\ [][NextSignature]_vars

\* ---------------------------------------------------------- the whole life
\* Item files built around one triplet: an A item, B items that differ from
\* it in the 'on' column only (and possibly in ac2), an X item that differs
\* in both across columns, possibly one more item that makes the X item an A
\* of its own block, and possibly a second by group holding one triplet.
BItems(n) ==
    {[k \in 1..n |-> Item(0, 1, 0, IF k <= z THEN 0 ELSE 1)] : z \in 0..n}

Extras(bs) == IF Len(bs) = 1 THEN {<<>>, <<Item(0, 1, 1, 1)>>} ELSE {<<>>}

FirstGroups ==
    UNION {{<<Item(0, 0, 0, 0)>> \o bs \o <<Item(0, 0, 1, 1)>> \o es : es \in Extras(bs)}
           : bs \in UNION {BItems(n) : n \in 0..MaxB}}

SecondGroups(g) ==
    IF Len(g) <= 4
    THEN {<<>>, <<Item(1, 0, 0, 0), Item(1, 1, 0, 0), Item(1, 0, 1, 1)>>}
    ELSE {<<>>}

LifeDatabases ==
    UNION {{g \o h : h \in SecondGroups(g)} : g \in FirstGroups}
        \cup (SecondGroups(<<>>) \ {<<>>})

LifeConfigs ==
    [by : {<<"by">>}, across : AcrossLists, filters : {{}}, regressors : {{"B", "X"}}]
        \cup [by : {<<"by">>}, across : {<<"ac1">>}, filters : {{"by"}, {"B"}, {"ABX"}},
              regressors : {{"B", "X"}}]
        \cup [by : {<<"by">>}, across : {<<"ac1">>}, filters : {{}},
              regressors : {{}, {"A", "B"}}]

Init == \E d \in LifeDatabases, c \in LifeConfigs : Unbuilt(d, c)

Next ==
    \/ Task__init__
    \/ \E approximate \in BOOLEAN : ComputeStatistics(approximate)
    \/ \E sample \in 0..MaxSample, thr \in 0..MaxThreshold : GenerateTriplets(sample, thr)
    \/ ComputeTripletsBy
    \/ FinishTriplets
    \/ PairsExtract
    \/ PairsSort
    \/ PairsDedup
    \/ GeneratePairs

Spec == Init /\ [][Next]_vars

\* ------------------------------- one block with regressors, under sampling
RegressorSets == {{}, {"A"}, {"B"}, {"A", "B"}, {"B", "X"}, {"A", "B", "X"}}

RegsConfigs ==
    [by : {<<"by">>}, across : {<<"ac1">>}, filters : {{}, {"ABX"}},
     regressors : RegressorSets]

InitRegs == \E d \in LifeDatabases, c \in RegsConfigs : Unbuilt(d, c)

NextRegs ==
    \/ Task__init__
    \/ \E sample \in 0..MaxSample, thr \in 0..MaxThreshold : GenerateTriplets(sample, thr)
    \/ \E by \in DOMAIN by_dbs : \E key \in DOMAIN on_across_blocks[by] :
          OnAcrossTripletsWithRegressors(by, key)

SpecRegs == InitRegs /\ [][NextRegs]_vars

\* --------------------------------- the exit paths of generate_pairs
TmpDirs == {"None", "dir", "missing"}

InitCleanup ==
    \E f \in [fn : {"generate_pairs"}, tmpdir : TmpDirs, groups : 1..MaxGroups,
              stage : {"mkstemp"}, n_by : {0}, output_tmp : {"unbound"},
              error : {"none"}, propagated : {"none"}] :
        Detached(f)

NextCleanup ==
    \/ Mkstemp
    \/ TryPairsStep
    \/ TryMergeStep
    \/ OsRemove

SpecCleanup == InitCleanup /\ [][NextCleanup]_vars

\* ------------------------------------- level counts and printed statistics
InitLevels == \E d \in Databases, c \in StatsConfigs : Unbuilt(d, c)

NextLevels ==
    \/ Task__init__
    \/ ComputeNbLevels
    \/ \E summarized \in BOOLEAN : PrintStats(summarized)

SpecLevels == InitLevels /\ [][NextLevels]_vars

\* ------------------------------------ four items, two on and two across values
\* the item file with on = (x, x, y, y) and across = (p, q, p, q), x and p
\* coded 0, y and q coded 1
FourItems == <<Item(0, 0, 0, 0), Item(0, 0, 1, 0), Item(0, 1, 0, 0), Item(0, 1, 1, 0)>>

\* the same four items in every row order
FourItemFiles ==
    {[k \in 1..4 |-> FourItems[q[k]]] :
        q \in {f \in [1..4 -> 1..4] : \A i, j \in 1..4 : i # j => f[i] # f[j]}}

\* on and one across column, no by, no filter, no regressor
NoByConfig == [by |-> <<>>, across |-> <<"ac1">>, filters |-> {}, regressors |-> {}]

InitScenario == \E d \in FourItemFiles : Unbuilt(d, NoByConfig)

NextScenario ==
    \/ Task__init__
    \/ \E by \in DOMAIN by_dbs : \E key \in DOMAIN on_across_blocks[by] :
          OnAcrossTriplets(by, key)
    \/ \E thr \in 0..MaxThreshold : GenerateTriplets(0, thr)
    \/ ComputeTripletsBy
    \/ FinishTriplets
    \/ PairsExtract
    \/ PairsSort
    \/ PairsDedup
    \/ GeneratePairs

SpecScenario == InitScenario /\ [][NextScenario]_vars

\* ------------------------------------------------ sort_pairs on its own
\* the bytes of a pair key (pair_key_type)
ItemSizes == {1, 2, 4, 8}

\* numbers of rows, in thousands: small datasets, and the sizes around which
\* the amount or its thirtieth reaches three quarters of the memory, for each
\* item size
RowThousands ==
    {0, 1} \cup UNION {{t - 1, t, t + 1} : t \in {(k * 750000) \div i : k \in {1, 30},
                                                                       i \in ItemSizes}}
           \cup {30000000}

RowUnits == {0, 1, 999}

InitSortPairs ==
    \E f \in [fn : {"sort_pairs"}, called : {FALSE}, n_thousands : RowThousands,
              n_units : RowUnits, itemsize : ItemSizes] :
        Detached(f)

NextSortPairs == SortPairsBuffer

SpecSortPairs == InitSortPairs /\ [][NextSortPairs]_vars

\* ------------------------------------------- the signatures on their own
\* values of an integer-coded regressor: the smallest, a small one and a
\* large one
RegValues == {0, 2 ^ 4, 2 ^ 30 - 1}

\* the regressor columns (Breg + Xreg) of a block of two triplet rows
InitSigned ==
    \E f \in UNION {[fn : {"new_index"}, called : {FALSE},
                     regs : [1..n -> [1..2 -> RegValues]], dtype : RegDtypes]
                       : n \in 1..MaxColumns} :
        Detached(f)

NextSigned == SignRows

SpecSigned == InitSigned /\ [][NextSigned]_vars

\* ================================================================ properties
\* C1: every triplet (a, b, x) returned by on_across_triplets for a block is
\* made of items of the block's by group; a and x have the same 'on' value
\* and b a different one; and with user-supplied across columns a and b have
\* the same across tuple while x differs from a in every across coordinate.
C1_TripletAttributes ==
    frame.fn = "on_across_triplets" =>
        \A k \in DOMAIN frame.triplets :
            LET t == frame.triplets[k]
                rows == by_dbs[frame.by]
            IN  /\ {t[1], t[2], t[3]} \subseteq DOMAIN rows
                /\ \A i \in 1..3 : KeyOf(rows[t[i]], By(cfg)) = frame.by
                /\ rows[t[1]]["on"] = rows[t[3]]["on"]
                /\ rows[t[2]]["on"] # rows[t[1]]["on"]
                /\ cfg.across # <<>> =>
                     /\ KeyOf(rows[t[1]], cfg.across) = KeyOf(rows[t[2]], cfg.across)
                     /\ \A i \in 1..Len(cfg.across) :
                          rows[t[3]][cfg.across[i]] # rows[t[1]][cfg.across[i]]

\* a triplet returned for a task with two across columns and two by groups
C1_Witness ==
    /\ frame.fn = "on_across_triplets"
    /\ Len(frame.triplets) > 0
    /\ Len(cfg.across) = 2
    /\ Cardinality(DOMAIN by_dbs) = 2

\* C2: for every block the candidate sets satisfy A \cap B = {} and
\* A \cap X = {}, before and after the singleton filters, and B \cap X = {}
\* when across has two or more coordinates.
C2_CandidateSetsDisjoint ==
    frame.fn = "on_across_triplets" =>
        /\ SeqRange(frame.candA) \cap SeqRange(frame.candB) = {}
        /\ SeqRange(frame.candA) \cap SeqRange(frame.candX) = {}
        /\ SeqRange(frame.A) \cap SeqRange(frame.B) = {}
        /\ SeqRange(frame.A) \cap SeqRange(frame.X) = {}
        /\ Len(cfg.across) >= 2 =>
             /\ SeqRange(frame.candB) \cap SeqRange(frame.candX) = {}
             /\ SeqRange(frame.B) \cap SeqRange(frame.X) = {}

\* a block of a task with two across columns and a singleton filter whose
\* three sets are non-empty
C2_Witness ==
    /\ frame.fn = "on_across_triplets"
    /\ Len(cfg.across) = 2
    /\ cfg.filters \cap {"A", "B", "X"} # {}
    /\ frame.A # <<>> /\ frame.B # <<>> /\ frame.X # <<>>

Enumerated(by, key) ==
    LET r == CHOOSE r \in on_across_triplets([Self EXCEPT !.sampling = FALSE], cfg, by,
                              on_from_key(key), across_from_key(key),
                              on_across_blocks[by][key], FALSE) : TRUE
    IN  Len(r.triplets)

\* a block passes the on_across_by filter
Passes(by, key) ==
    on_across_by_filter(cfg, by_dbs[by][Min(on_across_blocks[by][key])])

\* C4: with no A/B/X/ABX filter and across of at most one coordinate, for
\* every block passing the on_across_by filter the counts of
\* compute_statistics (n_A the block size, n_X = |on group| - n_A, n_B =
\* |by group| - |on group| for the synthetic across, else |across group| -
\* n_A) are the sizes of the sets A, X, B of on_across_triplets, the block
\* size is their product and the number of rows enumerated for the block, and
\* stats['nb_triplets'] is the number of rows a generate_triplets call
\* without sample and without threshold has written.
C4_StatsMatchEnumeration ==
    (pc = "idle" /\ cfg.filters \cap {"A", "B", "X", "ABX"} = {} /\ Len(cfg.across) <= 1) =>
        /\ \A by \in DOMAIN by_dbs : \A key \in DOMAIN on_across_blocks[by] :
             Passes(by, key) =>
                LET st == by_stats[by]
                    block == on_across_blocks[by][key]
                    on == on_from_key(key)
                    across == across_from_key(key)
                    nA == st["on_across_levels"][key]
                    nX == st["on_levels"][<<on>>] - nA
                    nB == IF cfg.across = <<>>
                          THEN st["nb_items"] - st["on_levels"][<<on>>]
                          ELSE st["across_levels"][across] - nA
                IN  /\ nA = Len(SetA(Self, cfg, by, block))
                    /\ nB = Len(SetB(Self, cfg, by, on, across, block))
                    /\ nX = Len(SetX(Self, cfg, by, on, across, block))
                    /\ st["block_sizes"][key] = nA * nB * nX
                    /\ st["block_sizes"][key] = Enumerated(by, key)
        /\ (out.exists /\ "pairs" \in events /\ ~sampling /\ threshold = 0) =>
             Len(out.data) = stats["nb_triplets"]

\* a generate_triplets call without sample and threshold has written rows of
\* two by groups
C4_Witness ==
    /\ pc = "idle" /\ cfg.filters \cap {"A", "B", "X", "ABX"} = {} /\ Len(cfg.across) <= 1
    /\ out.exists /\ "pairs" \in events /\ ~sampling /\ threshold = 0
    /\ Len(out.bys) = 2
    /\ Len(out.data) = stats["nb_triplets"]

\* the count of a block as C5 and its amended statement read it: by
\* enumeration, or as the product of the group sizes
ProductOf(st, key) ==
    LET nA == st["on_across_levels"][key]
        nX == st["on_levels"][<<on_from_key(key)>>] - nA
        nB == IF cfg.across = <<>>
              THEN st["nb_items"] - st["on_levels"][<<on_from_key(key)>>]
              ELSE st["across_levels"][across_from_key(key)] - nA
    IN  nA * nB * nX

CountedBy(product) ==
    \A by \in DOMAIN by_dbs : \A key \in DOMAIN on_across_blocks[by] :
        by_stats[by]["block_sizes"][key] =
            IF ~Passes(by, key) THEN 0
            ELSE IF product THEN ProductOf(by_stats[by], key)
            ELSE Enumerated(by, key)

\* C5 as stated: whenever an A, B, X or ABX filter is configured,
\* compute_statistics counts every block by enumeration, for approximate
\* False and True alike; the product of the group sizes is used only when no
\* such filter is configured and across has at most one coordinate.
C5_FallbackUnconditional ==
    (pc = "idle" /\ frame.fn = "compute_statistics") =>
        CountedBy(cfg.filters \cap {"A", "B", "X", "ABX"} = {} /\ Len(cfg.across) <= 1)

\* C5 amended: compute_statistics counts a block by enumeration when across
\* has two or more coordinates, or when an A, B, X or ABX filter is
\* configured and approximate is False; it uses the product of the group
\* sizes when across has at most one coordinate and either no such filter is
\* configured or approximate is True.
C5_FallbackUnlessApproximate ==
    (pc = "idle" /\ frame.fn = "compute_statistics") =>
        CountedBy((frame.approximate \/ cfg.filters \cap {"A", "B", "X", "ABX"} = {})
                  /\ Len(cfg.across) <= 1)

\* statistics computed with approximate=True under a filter that removes
\* triplets: a block's size is the product, larger than its number of rows
C5_Witness ==
    /\ pc = "idle" /\ frame.fn = "compute_statistics" /\ frame.approximate
    /\ cfg.filters \cap {"A", "B", "X", "ABX"} # {}
    /\ \E by \in DOMAIN by_dbs : \E key \in DOMAIN on_across_blocks[by] :
          /\ Passes(by, key)
          /\ by_stats[by]["block_sizes"][key] = ProductOf(by_stats[by], key)
          /\ by_stats[by]["block_sizes"][key] > Enumerated(by, key)

\* C6 as stated: stats['approximate'] is true if and only if an A, B, X or
\* ABX filter is configured and the caller passed approximate=True.
C6_FlagIffRequested ==
    (pc = "idle" /\ frame.fn = "compute_statistics") =>
        (stats["approximate"] <=>
            (cfg.filters \cap {"A", "B", "X", "ABX"} # {} /\ frame.approximate))

\* C6 amended: stats['approximate'] is true if and only if an A, B, X or ABX
\* filter is configured, whatever the caller passed; the flag that is true
\* if and only if such a filter is configured and the caller passed
\* approximate=True is stats['approximate_nb_triplets'].
C6_FlagIffFiltered ==
    (pc = "idle" /\ frame.fn = "compute_statistics") =>
        /\ stats["approximate"] <=> (cfg.filters \cap {"A", "B", "X", "ABX"} # {})
        /\ stats["approximate_nb_triplets"] <=>
              (cfg.filters \cap {"A", "B", "X", "ABX"} # {} /\ frame.approximate)

\* exact statistics (approximate=False) of a task with a filter, flagged
\* approximate
C6_Witness ==
    /\ pc = "idle" /\ frame.fn = "compute_statistics" /\ ~frame.approximate
    /\ cfg.filters \cap {"A", "B", "X", "ABX"} # {}
    /\ stats["approximate"]
    /\ ~stats["approximate_nb_triplets"]
    /\ stats["nb_triplets"] > 0

\* C7: generate_triplets called with a sample count on a task whose count is
\* approximate (stats['approximate_nb_triplets'] true, nb_triplets > 0) fails
\* with an error, and no output file is opened, no sampler created and no
\* triplet written.
C7_SampleRefusedOnApproximate ==
    [][\A sample \in 1..MaxSample, thr \in 0..MaxThreshold :
          (/\ pc = "idle"
           /\ "nb_triplets" \in DOMAIN stats
           /\ stats["nb_triplets"] > 0
           /\ stats["approximate_nb_triplets"]
           /\ GenerateTriplets(sample, thr)) =>
             /\ events' = {"ValueError"}
             /\ pc' = "idle"
             /\ UNCHANGED <<out, sampler>>]_vars

\* the refused call, on a task that has never opened a file nor made a sampler
C7_Witness ==
    /\ events = {"ValueError"}
    /\ stats["nb_triplets"] > 0 /\ stats["approximate_nb_triplets"]
    /\ out = NoFile /\ sampler = NoSampler

\* C8: on a task without triplets (stats['nb_triplets'] = 0, in particular
\* when the by filter rejects every by group) generate_triplets emits the
\* warning and returns: no output is opened, no triplets, regressors or by
\* index are written and generate_pairs is not run.
C8_EmptyTaskWarns ==
    [][\A sample \in 0..MaxSample, thr \in 0..MaxThreshold :
          (/\ pc = "idle"
           /\ "nb_triplets" \in DOMAIN stats
           /\ stats["nb_triplets"] = 0
           /\ GenerateTriplets(sample, thr)) =>
             /\ events' = {"warning"}
             /\ pc' = "idle"
             /\ UNCHANGED <<out, by_block_indices, by_dbs>>]_vars

\* the warning on a task whose by groups are all rejected by the by filter
C8_Witness ==
    /\ events = {"warning"}
    /\ db # <<>> /\ "by" \in cfg.filters /\ DOMAIN by_dbs = {}
    /\ stats["nb_triplets"] = 0
    /\ out = NoFile

\* the rows of the signature v among the row numbers of the sequence q
RowsOf(q, new_index, v) ==
    LET has(r) == new_index[r + 1] = v IN SelectSeq(q, has)

\* C9: sort_and_threshold, given a permutation that sorts the signatures and
\* a cap T > 0, returns for every run of L rows sharing a signature exactly
\* min(L, T) rows of that run, all distinct; a run with L <= T is returned
\* unchanged (same rows, same order); the runs come in ascending signature
\* order; and without a cap the permutation is returned as it is.
C9_RunsCappedAtThreshold ==
    (frame.fn = "sort_and_threshold" /\ frame.called) =>
        LET new_index == frame.new_index
            q == frame.new_permut
            T == frame.threshold
            L(v) == Cardinality({r \in DOMAIN new_index : new_index[r] = v})
        IN  IF T = 0 THEN q = frame.permut
            ELSE /\ \A k \in DOMAIN q : q[k] \in 0..(Len(new_index) - 1)
                 /\ \A k, l \in DOMAIN q : k # l => q[k] # q[l]
                 /\ \A v \in SeqRange(new_index) :
                      /\ Len(RowsOf(q, new_index, v)) = Min({L(v), T})
                      /\ L(v) <= T =>
                           RowsOf(q, new_index, v) = RowsOf(frame.permut, new_index, v)
                 /\ \A k \in 1..(Len(q) - 1) : new_index[q[k] + 1] <= new_index[q[k + 1] + 1]

\* C10: the run boundaries returned by sort_and_threshold index the rows it
\* returns: every boundary but the last is the position, among the returned
\* rows, of the first row of a signature run, every such position is a
\* boundary, and the last boundary is the number of returned rows; without a
\* cap and with a cap that shortens runs.
C10_BoundariesIndexReturnedRows ==
    (frame.fn = "sort_and_threshold" /\ frame.called) =>
        LET new_index == frame.new_index
            q == frame.new_permut
            index == frame.index
            starts == {k \in 0..(Len(q) - 1) :
                          k = 0 \/ new_index[q[k + 1] + 1] # new_index[q[k] + 1]}
        IN  /\ index[Len(index)] = Len(q)
            /\ {index[j] : j \in 1..(Len(index) - 1)} = starts
            /\ \A j \in 1..(Len(index) - 1) : index[j] < index[j + 1]

\* C11: for every triplet (a, b, x) of a by group with modulus m = max_idx + 1
\* the keys AX = a + m * x and BX = b + m * x written by generate_pairs decode
\* back exactly (AX mod m = a, AX div m = x, BX mod m = b, BX div m = x),
\* every key lies in 0..m*m-1, and two keys are equal if and only if their
\* (component, shared) index pairs are equal.
C11_PairKeyRoundTrip ==
    (frame.fn = "pair_keys" /\ frame.called) =>
        LET m == frame.max_ind + 1
            component(k) == IF k % 2 = 1 THEN frame.triplets[(k + 1) \div 2][1]
                            ELSE frame.triplets[k \div 2][2]
            shared(k) == frame.triplets[(k + 1) \div 2][3]
        IN  /\ Len(frame.pairs) = 2 * Len(frame.triplets)
            /\ \A k \in DOMAIN frame.pairs :
                 /\ frame.pairs[k] % m = component(k)
                 /\ frame.pairs[k] \div m = shared(k)
                 /\ frame.pairs[k] \in 0..(m * m - 1)
            /\ \A k, l \in DOMAIN frame.pairs :
                 frame.pairs[k] = frame.pairs[l]
                     <=> (component(k) = component(l) /\ shared(k) = shared(l))

\* the largest key of the largest group whose keys are 8 bit integers has
\* been written
C11_Witness ==
    /\ frame.fn = "pair_keys" /\ frame.called
    /\ pair_key_type(frame.max_ind) = 8
    /\ \E k \in DOMAIN frame.pairs :
         frame.pairs[k] = (frame.max_ind + 1) * (frame.max_ind + 1) - 1

\* C12: for a globally sorted pair-key stream delivered in chunks of any
\* sizes, the dedup scan of generate_pairs writes a unique-pairs dataset that
\* is strictly increasing (no key twice, keys equal across a chunk seam
\* included) and holds exactly the distinct keys of the stream.
C12_DedupStrictlyIncreasingComplete ==
    (frame.fn = "dedup" /\ frame.called) =>
        LET u == frame.unique_pairs
        IN  /\ \A k \in 1..(Len(u) - 1) : u[k] < u[k + 1]
            /\ SeqRange(u) = SeqRange(Concat(frame.chunks))

\* a key repeated across a chunk seam has been written once
C12_Witness ==
    /\ frame.fn = "dedup" /\ frame.called
    /\ \E j \in 1..(Len(frame.chunks) - 1) :
         frame.chunks[j][Len(frame.chunks[j])] = frame.chunks[j + 1][1]
    /\ Len(frame.unique_pairs) < Len(Concat(frame.chunks))
    /\ Len(frame.unique_pairs) >= 2

\* C13: the dedup scan run on a stream that is already sorted and free of
\* duplicates yields the identical stream under any chunking: no row is
\* dropped and none is reordered.
C13_DedupIdempotent ==
    (frame.fn = "dedup" /\ frame.called) =>
        LET s == Concat(frame.chunks)
        IN  (\A k \in 1..(Len(s) - 1) : s[k] < s[k + 1]) => frame.unique_pairs = s

\* a duplicate-free stream of three keys handed over in two chunks or more
C13_Witness ==
    /\ frame.fn = "dedup" /\ frame.called
    /\ Len(frame.chunks) >= 2
    /\ LET s == Concat(frame.chunks)
       IN  /\ Len(s) = 3
           /\ \A k \in 1..(Len(s) - 1) : s[k] < s[k + 1]
           /\ frame.unique_pairs = s

\* C14 as stated: one by group is fully processed (triplet generation, write,
\* pair extraction, sort, dedup) before triplet generation of the next by
\* group begins: whenever generate_triplets is about to generate the triplets
\* of a by group, the pairs of every group that wrote triplets before it have
\* been extracted, sorted and deduplicated.
C14_GroupFullyProcessedBeforeNext ==
    (pc = "triplets" /\ loop.todo # <<>>) =>
        \A k \in DOMAIN loop.bys : loop.bys[k] \in DOMAIN loop.tmp_unique

\* C14 amended: generate_triplets generates and writes the triplets of every
\* by group, one group after the other, before any pair is extracted;
\* generate_pairs then takes the retained by groups one after the other and
\* extracts, sorts and deduplicates the pairs of a group before it extracts
\* those of the next.
C14_TripletsOfAllGroupsBeforePairs ==
    /\ pc = "triplets" =>
         /\ loop.tmp_pairs = <<>> /\ loop.tmp_unique = <<>> /\ loop.pairs_todo = <<>>
         /\ DOMAIN loop.written = (DOMAIN by_dbs) \ SeqRange(loop.todo)
    /\ pc = "pairs" =>
         LET order == SortKeys(DOMAIN by_dbs)
             n == Len(order) - Len(loop.pairs_todo)
         IN  /\ loop.todo = <<>>
             /\ DOMAIN by_dbs \subseteq DOMAIN loop.written
             /\ n >= 0
             /\ loop.pairs_todo = SubSeq(order, n + 1, Len(order))
             /\ DOMAIN loop.tmp_unique = {order[i] : i \in 1..n}
             /\ DOMAIN loop.tmp_pairs =
                    {order[i] : i \in 1..(IF loop.stage = "extract" THEN n ELSE n + 1)}

\* the pairs of the first of two retained by groups are deduplicated and
\* those of the second are extracted and not yet sorted
C14_Witness ==
    /\ pc = "pairs"
    /\ Len(out.bys) = 2
    /\ loop.n_by = 1
    /\ loop.stage = "sort"
    /\ DOMAIN loop.tmp_unique = {out.bys[1]}
    /\ loop.tmp_unique[out.bys[1]] # <<>>

\* C15: when generate_triplets has completed the triplet phase, the by-index
\* table has one row [start, end) per by group that wrote at least one
\* triplet and none for a group that wrote none; the first start is 0, each
\* start is the previous end, every range is non-empty and holds the rows its
\* group wrote, the last end is the final row count of the triplets dataset,
\* and the i-th name in 'bys' is the group owning the i-th range.
C15_ByIndexTable ==
    (pc = "pairs") =>
        LET idx == out.by_index
            wrote == {by \in DOMAIN loop.written : loop.written[by] # <<>>}
        IN  /\ Len(idx) = Len(out.bys)
            /\ Len(idx) = Cardinality(wrote)
            /\ SeqRange(out.bys) = wrote
            /\ by_block_indices = idx
            /\ Len(idx) > 0 => idx[1][1] = 0
            /\ \A i \in 1..(Len(idx) - 1) : idx[i + 1][1] = idx[i][2]
            /\ \A i \in 1..Len(idx) :
                 /\ idx[i][1] < idx[i][2]
                 /\ SubSeq(out.data, idx[i][1] + 1, idx[i][2]) = loop.written[out.bys[i]]
            /\ Len(out.data) = (IF Len(idx) = 0 THEN 0 ELSE idx[Len(idx)][2])

\* two by groups were iterated: the first wrote nothing and has no range, the
\* second owns the only range
C15_Witness ==
    /\ pc = "pairs"
    /\ Cardinality(DOMAIN loop.written) = 2
    /\ loop.empty_by_blocks = {<<0>>}
    /\ out.bys = << <<1>> >>
    /\ out.by_index = << <<0, Len(out.data)>> >>
    /\ Len(out.data) >= 1

\* the component of a triplet a regressor kind reads
ComponentOf(kind) == IF kind = "A" THEN 1 ELSE IF kind = "B" THEN 2 ELSE 3

\* C16: for every block and every configuration of regressors, ABX filter,
\* sampling and threshold, each A-, B- and X-scoped regressor column returned
\* by on_across_triplets has as many rows as the returned triplet array, and
\* row i of the column is the regressor value of the item in the
\* corresponding component of triplet row i; also when A-scoped regressors
\* are configured and no B- or X-scoped regressor is.
C16_RegressorsRowAligned ==
    (frame.fn = "on_across_triplets" /\ frame.with_regressors /\ ~frame.raised) =>
        \A kind \in cfg.regressors :
            /\ Len(frame.regressors[kind]) = Len(frame.triplets)
            /\ \A i \in DOMAIN frame.triplets :
                 frame.regressors[kind][i] =
                     by_dbs[frame.by][frame.triplets[i][ComponentOf(kind)]]["ac2"]

\* C17: the block index and candidate-set structures built at task
\* construction (by_dbs, on_blocks, across_blocks, on_across_blocks,
\* antiacross_blocks) are not modified by any later operation: after any
\* sequence of compute_statistics, generate_triplets and generate_pairs calls
\* they hold the same by groups and the same item indices as right after
\* construction.
C17_BlocksImmutable ==
    (pc \in {"idle", "triplets", "pairs"}) =>
        /\ by_dbs = InitByDbs(db, cfg)
        /\ on_blocks = InitOnBlocks(cfg, InitByDbs(db, cfg))
        /\ across_blocks = InitAcrossBlocks(cfg, InitByDbs(db, cfg))
        /\ on_across_blocks = InitOnAcrossBlocks(cfg, InitByDbs(db, cfg))
        /\ antiacross_blocks = InitAntiAcrossBlocks(cfg, InitByDbs(db, cfg))

\* the product of the radixes at full length: 4 bytes for every radix, 8 at
\* least
ExactProd(radixes) == ProdBytes(radixes, Max({8, 4 * Len(radixes)}))

\* the product fits an unsigned 64 bit integer
Fits64(radixes) == \A i \in DOMAIN ExactProd(radixes) : i > 8 => ExactProd(radixes)[i] = 0

\* C18: when the product of the regressor radixes of a block does not fit
\* the unsigned 64 bit signature space, on_across_triplets fails with a fatal
\* error: it never goes on with a product that has wrapped around modulo the
\* machine integer width.
C18_SignatureOverflowFatal ==
    (frame.fn = "signature_type" /\ frame.called) =>
        /\ ~Fits64(frame.n_regs) => frame.raised
        /\ ~frame.raised =>
             frame.prod = [i \in 1..8 |-> ExactProd(frame.n_regs)[i]] /\ Fits64(frame.n_regs)

\* the rows of the frame's block that pass the ABX filter, as positions of
\* the full enumeration
Survivors == ABX_filter(by_dbs[frame.by], frame.enumerated)

\* C19: with sampling active, for every block of non-zero candidate size: if
\* no ABX filter is configured the sampler is invoked exactly once, on the
\* full size |A|.|B|.|X|, and only the drawn rows are materialised; if an ABX
\* filter is configured all |A|.|B|.|X| candidates are enumerated, the filter
\* is applied, and the sampler is invoked exactly once, on the number of
\* survivors; in both cases every returned triplet satisfies the ABX filter
\* and is an element of A x B x X of the block.
C19_SamplingAfterFilter ==
    (frame.fn = "on_across_triplets" /\ frame.with_regressors /\ ~frame.raised
        /\ sampling /\ Len(frame.enumerated) > 0) =>
        LET size == Len(frame.A) * Len(frame.B) * Len(frame.X)
        IN  /\ Len(frame.enumerated) = size
            /\ IF "ABX" \in cfg.filters
               THEN /\ frame.stacked = size
                    /\ frame.calls = <<Len(Survivors)>>
                    /\ \A i \in DOMAIN frame.triplets :
                         ABX_filter(by_dbs[frame.by], <<frame.triplets[i]>>) = <<0>>
               ELSE /\ frame.calls = <<size>>
                    /\ frame.stacked <= size
                    /\ frame.stacked >= Len(frame.triplets)
            /\ \A i \in DOMAIN frame.triplets :
                 /\ frame.triplets[i][1] \in SeqRange(frame.A)
                 /\ frame.triplets[i][2] \in SeqRange(frame.B)
                 /\ frame.triplets[i][3] \in SeqRange(frame.X)

\* a sampled call on a block of two candidates of which the ABX filter keeps
\* one, and that one is drawn
C19_Witness ==
    /\ frame.fn = "on_across_triplets" /\ frame.with_regressors /\ ~frame.raised
    /\ sampling /\ "ABX" \in cfg.filters
    /\ Len(frame.enumerated) = 2
    /\ frame.calls = <<1>>
    /\ Len(frame.triplets) = 1

\* C20: after generate_pairs, for every retained by group g the stored decode
\* metadata is (max_idx(g) + 1, start, end) where the rows [start, end) of
\* the merged unique-pairs dataset are exactly the deduplicated pair keys
\* derived from g's own triplet row range; the ranges follow the by-group
\* iteration order, are contiguous from 0, do not overlap, and the last end
\* is the number of rows of the merged dataset.
C20_PairsMetadata ==
    (pc = "idle" /\ out.exists /\ "pairs" \in events) =>
        /\ DOMAIN out.pairs_attrs = SeqRange(out.bys)
        /\ out.bys = SortKeys(DOMAIN by_dbs)
        /\ \A i \in 1..Len(out.bys) :
             LET g == out.bys[i]
                 attrs == out.pairs_attrs[g]
                 m == Max(DOMAIN by_dbs[g]) + 1
                 rows == SubSeq(out.data, out.by_index[i][1] + 1, out.by_index[i][2])
                 keys == {rows[k][1] + m * rows[k][3] : k \in DOMAIN rows}
                             \cup {rows[k][2] + m * rows[k][3] : k \in DOMAIN rows}
                 part == SubSeq(out.unique_pairs, attrs[2] + 1, attrs[3])
             IN  /\ attrs[1] = m
                 /\ attrs[2] = (IF i = 1 THEN 0 ELSE out.pairs_attrs[out.bys[i - 1]][3])
                 /\ attrs[2] < attrs[3]
                 /\ attrs[3] <= Len(out.unique_pairs)
                 /\ SeqRange(part) = keys
                 /\ \A k \in 1..(Len(part) - 1) : part[k] < part[k + 1]
        /\ Len(out.unique_pairs) =
               (IF out.bys = <<>> THEN 0 ELSE out.pairs_attrs[out.bys[Len(out.bys)]][3])

\* two by groups are retained; the pairs of the second follow those of the
\* first in the merged dataset, and the first group had a pair in two triplets
C20_Witness ==
    /\ pc = "idle" /\ out.exists /\ "pairs" \in events
    /\ Len(out.bys) = 2
    /\ out.pairs_attrs[out.bys[1]][2] = 0
    /\ out.pairs_attrs[out.bys[2]][2] = out.pairs_attrs[out.bys[1]][3]
    /\ out.pairs_attrs[out.bys[2]][3] = Len(out.unique_pairs)
    /\ out.pairs_attrs[out.bys[1]][3] < 2 * out.by_index[1][2]

\* C21: on every exit path of generate_pairs (normal completion, or a failure
\* raised while creating the temporary file, extracting, sorting, deduplicating
\* or merging) the temporary file of the call is gone, and what leaves the
\* call is the original failure, not an error of the cleanup.
C21_CleanupKeepsOriginalFailure ==
    (frame.fn = "generate_pairs" /\ frame.stage \in {"returned", "raised"}) =>
        /\ frame.output_tmp # "exists"
        /\ frame.propagated = frame.error

\* C22: with an A, B, X or ABX filter configured, compute_nb_levels raises
\* and no nb_levels value is stored in stats or by_stats; print_stats in
\* summarized mode catches the error, warns, and writes for every by group its
\* statistics without the nb_levels line.
C22_NbLevelsRefusedAndSkipped ==
    AnySingletonOrABX(cfg) =>
        /\ "nb_levels" \notin DOMAIN stats
        /\ \A by \in DOMAIN by_stats : "nb_levels" \notin DOMAIN by_stats[by]
        /\ frame.fn = "compute_nb_levels" => frame.raised = "ValueError"
        /\ (frame.fn = "print_stats" /\ frame.summarized) =>
              /\ frame.raised = "none"
              /\ frame.warnings = <<"RuntimeWarning">>
              /\ frame.lines =
                    <<<<"Global stats", stats>>>> \o
                    Concat([k \in 1..Cardinality(DOMAIN by_stats) |->
                        LET by == SortKeys(DOMAIN by_stats)[k]
                        IN  <<<<"by level", by>>,
                              <<"nb_triplets", by_stats[by]["nb_triplets"]>>,
                              <<"nb_across_pairs", by_stats[by]["nb_across_pairs"]>>,
                              <<"nb_on_pairs", by_stats[by]["nb_on_pairs"]>>,
                              <<"nb_on_levels", by_stats[by]["nb_on_levels"]>>,
                              <<"nb_across_levels", by_stats[by]["nb_across_levels"]>>,
                              <<"nb_on_across_levels",
                                by_stats[by]["nb_on_across_levels"]>>>>])

\* a summarized print of a task with an ABX filter and two by groups, one of
\* them with triplets
C22_Witness ==
    /\ frame.fn = "print_stats" /\ frame.summarized
    /\ "ABX" \in cfg.filters
    /\ Cardinality(DOMAIN by_stats) = 2
    /\ \E by \in DOMAIN by_stats : by_stats[by]["nb_triplets"] > 0
    /\ frame.warnings # <<>>

\* C23: for the four items with on = (x, x, y, y) and across = (p, q, p, q)
\* and no by, there is one by group; the block (on = x, across = p) has
\* A = {0}, X = {1}, B = {2} and yields the one triplet (0, 2, 1); its pair
\* keys are AX = 0 + 4*1 = 4 and BX = 2 + 4*1 = 6, the modulus being 4.
C23_FourItemScenario ==
    (db = FourItems /\ pc # "new") =>
        /\ DOMAIN by_dbs = {<<0>>}
        /\ (frame.fn = "on_across_triplets" /\ frame.on = 0 /\ frame.across = <<0>>) =>
              /\ frame.A = <<0>> /\ frame.X = <<1>> /\ frame.B = <<2>>
              /\ frame.triplets = <<<<0, 2, 1>>>>
        /\ (pc = "pairs" /\ loop.stage = "sort") =>
              /\ Cardinality({k \in DOMAIN out.data : out.data[k] = <<0, 2, 1>>}) = 1
              /\ loop.max_ind_dict[<<0>>] + 1 = 4
              /\ \A k \in DOMAIN out.data :
                    out.data[k] = <<0, 2, 1>> =>
                        /\ loop.tmp_pairs[<<0>>][2 * k - 1] = 4
                        /\ loop.tmp_pairs[<<0>>][2 * k] = 6

\* the pair keys of the scenario have been written
C23_Witness ==
    /\ db = FourItems
    /\ pc = "pairs" /\ loop.stage = "sort"
    /\ Len(loop.tmp_pairs[<<0>>]) = 2 * Len(out.data)
    /\ \E k \in DOMAIN out.data : out.data[k] = <<0, 2, 1>>

\* the number of bytes of the frame's dataset is at most k thousand bytes
BytesAtMost(k) ==
    LET thousands == frame.n_thousands * frame.itemsize
        units == frame.n_units * frame.itemsize
    IN  thousands + (units + 999) \div 1000 <= k

\* C24: sort_pairs sorts with a buffer of the whole amount when the amount is
\* at most 0.75 M, of amount/30 when the amount is above 0.75 M and amount/30
\* is at most 0.75 M, and of 0.75 M otherwise; the buffer is never above
\* 0.75 M, exactly one case applies, and the amount and M are compared in the
\* same unit (M is 1000 Mo, that is 1000000 Ko or 10^9 bytes).
C24_SortBufferSize ==
    (frame.fn = "sort_pairs" /\ frame.called) =>
        /\ frame.buffer.branch = "one chunk" <=> BytesAtMost(750000)
        /\ frame.buffer.branch = "30 chunks" <=>
              (~BytesAtMost(750000) /\ BytesAtMost(30 * 750000))
        /\ frame.buffer.branch = "budget" <=> ~BytesAtMost(30 * 750000)
        /\ frame.buffer.branch = "one chunk" =>
              frame.buffer.num = frame.amount /\ frame.buffer.div = 1
        /\ frame.buffer.branch = "30 chunks" =>
              frame.buffer.num = frame.amount /\ frame.buffer.div = 30
        /\ frame.buffer.branch = "budget" =>
              frame.buffer.num = [q |-> 750000, r |-> 0] /\ frame.buffer.div = 1
        /\ frame.buffer.num.q < 750000 * frame.buffer.div
              \/ (frame.buffer.num.q = 750000 * frame.buffer.div /\ frame.buffer.num.r = 0)

\* a dataset one byte above thirty times the budget: sorted with the budget
C24_Witness ==
    /\ frame.fn = "sort_pairs" /\ frame.called
    /\ frame.itemsize = 1 /\ frame.n_thousands = 30 * 750000 /\ frame.n_units = 1
    /\ frame.buffer.branch = "budget"

\* C25: the signature is an injective mixed-radix encoding: two triplet rows
\* of a block get the same signature if and only if their (B-regressor,
\* X-regressor) value tuples are equal in every column.
C25_SignatureInjective ==
    (frame.fn = "new_index" /\ frame.called /\ ~frame.raised) =>
        \A k, l \in DOMAIN frame.new_index :
            frame.new_index[k] = frame.new_index[l]
                <=> \A i \in DOMAIN frame.regs : frame.regs[i][k] = frame.regs[i][l]

\* the task as the constructor builds it from the item file (lines 230-298)
Constructed ==
    [by_dbs |-> InitByDbs(db, cfg),
     on_blocks |-> InitOnBlocks(cfg, InitByDbs(db, cfg)),
     across_blocks |-> InitAcrossBlocks(cfg, InitByDbs(db, cfg)),
     on_across_blocks |-> InitOnAcrossBlocks(cfg, InitByDbs(db, cfg)),
     antiacross_blocks |-> InitAntiAcrossBlocks(cfg, InitByDbs(db, cfg)),
     types |-> InitTypes(InitByDbs(db, cfg)),
     sampling |-> FALSE, sampler |-> NoSampler, threshold |-> 0]

\* what the call of compute_statistics made at construction returns (one
\* result: the constructor has set no sampling)
AtConstruction == compute_statistics(Constructed, cfg, FALSE)

\* C26: compute_statistics(approximate=False), called after any sequence of
\* generate_triplets calls, returns the stats['nb_triplets'] and the block
\* sizes of the call made at construction, and leaves the incremental sampler
\* as it found it.
C26_StatisticsDependOnConfigurationOnly ==
    (pc = "idle" /\ frame.fn = "compute_statistics" /\ ~frame.approximate) =>
        LET same(ref) ==
                /\ "nb_triplets" \in DOMAIN stats
                /\ stats["nb_triplets"] = ref.stats["nb_triplets"]
                /\ DOMAIN by_stats = DOMAIN ref.by_stats
                /\ \A by \in DOMAIN by_stats :
                      by_stats[by]["block_sizes"] = ref.by_stats[by]["block_sizes"]
        IN  /\ sampler = frame.sampler_before
            /\ \A ref \in AtConstruction : same(ref)

\* a generate_triplets call that is refused at lines 676-677
RejectedCall ==
    /\ pc = "idle"
    /\ "nb_triplets" \in DOMAIN stats
    /\ ~NoTriplets(stats)
    /\ \E sample \in 1..MaxSample, thr \in 0..MaxThreshold :
          CannotSample(sample, stats) /\ GenerateTriplets(sample, thr)

\* C27: a generate_triplets call rejected with 'Cannot sample if number of
\* triplets is computed approximately' leaves the task as it was before the
\* call: the sampling flag, the sampler and every other field keep their
\* values.
C27_RejectedCallLeavesTaskUnchanged ==
    [][RejectedCall =>
          UNCHANGED <<blockVars, stats, by_stats, sampling, sampler, threshold,
                      total_n_triplets, n_triplets>>]_vars

\* C28: for every chunking of a sorted key stream the count of the counting
\* scan is the number of rows the dedup scan writes; merged, the group's
\* decode range has that many rows, it holds exactly the rows written, and
\* the row count the merged dataset is created with is the rows it receives.
C28_CountMatchesWrittenRows ==
    /\ (frame.fn = "dedup" /\ frame.called) =>
           frame.n_pairs = Len(frame.unique_pairs)
    /\ frame.fn = "merge" =>
           LET attrs == frame.attrs[<<0>>]
           IN  /\ frame.n_rows = Len(frame.unique_pairs)
               /\ attrs[3] - attrs[2] = Len(frame.written)
               /\ SubSeq(frame.unique_pairs, attrs[2] + 1, attrs[3]) = frame.written

\* a merged group whose stream repeats a key across a chunk seam, one chunk
\* holding nothing but the key the chunk before ended on
C28_Witness ==
    /\ frame.fn = "merge"
    /\ \E j \in 1..(Len(frame.chunks) - 1) :
         /\ frame.chunks[j][Len(frame.chunks[j])] = frame.chunks[j + 1][1]
         /\ SeqRange(frame.chunks[j + 1]) = {frame.chunks[j + 1][1]}
    /\ Len(frame.chunks) >= 3
    /\ Len(frame.written) >= 2
    /\ frame.n_rows = Len(frame.written)

====
